---- MODULE Spec2Model ----
(***************************************************************************)
(* Identity, session, password-reset and audit subsystem of the            *)
(* campus-life-events backend (backend/src/routes/*.rs).                   *)
(*                                                                         *)
(* All program state lives in a PostgreSQL database.  A table is a set of  *)
(* rows; a request handler is a process that executes its SQL statements   *)
(* one atomic step at a time (every `.await` on the database is a          *)
(* suspension point).  A statement run on the pool (`&state.db`) commits   *)
(* on its own; statements run on a transaction (`&mut *tx`) are buffered   *)
(* in the handler's local state and reach the tables at `tx.commit()`     *)
(* (READ COMMITTED: a statement sees the rows committed when it runs, and  *)
(* a writer waits for a row another open transaction has written).        *)
(***************************************************************************)
EXTENDS Integers, Sequences, FiniteSets, TLC

VARIABLES
    accounts,               \* table accounts
    sessions,               \* table sessions
    password_reset_tokens,  \* table password_reset_tokens
    events,                 \* table events
    audit_log,              \* table audit_log
    now,                    \* NOW() / Utc::now()
    issued,                 \* how many sessions / setup tokens / reset tokens / events were generated
    started,                \* number of requests accepted and clock ticks so far
    faultsOn,               \* whether the database may fail a statement
    pc,                     \* per handler task: the statement it executes next
    local,                  \* per handler task: its request and local variables
    resp,                   \* per handler task: the response of its last request
    outbox,                 \* e-mails the SMTP relay accepted
    cache                   \* AppState.cache: None, or the entries the Redis cache holds

vars == <<accounts, sessions, password_reset_tokens, events, audit_log, now,
          issued, started, faultsOn, pc, local, resp, outbox, cache>>

authTables == <<accounts, sessions, password_reset_tokens>>
eventTables == <<events, audit_log>>
env == <<now, faultsOn, cache>>

(***************************************************************************)
(* Bounds of the model.                                                    *)
(***************************************************************************)
MaxEvents == 2      \* requests accepted and clock ticks in one behaviour

(***************************************************************************)
(* Program constants.  Time is counted in units of 10 minutes, the         *)
(* shortest lifetime the program uses; longer lifetimes keep their order.  *)
(***************************************************************************)
RESET_TOKEN_TTL == 1    \* Duration::minutes(10)
SESSION_TTL == 2        \* Duration::hours(24)
SETUP_TOKEN_TTL == 3    \* INTERVAL '7 days'
MIN_LENGTH == 20        \* HighSecurityPolicy { min_length: 20, .. }

\* Handler tasks (tokio spawns one per request; two run concurrently here).
Procs == {1, 2}

(***************************************************************************)
(* Option<T>: None is the empty set, Some(x) the singleton.                *)
(***************************************************************************)
None == {}
Some(x) == {x}
is_some(o) == o # {}
is_none(o) == o = {}
unwrap(o) == CHOOSE x \in o : TRUE

(***************************************************************************)
(* Strings are sequences of one-character strings.                         *)
(***************************************************************************)
Rep(c, n) == [i \in 1..n |-> c]

Lowercase == {"a", "b", "p", "s", "w", "o", "r", "d"}
Uppercase == {"A", "B", "P"}
Digits == {"0", "1", "2"}

is_ascii_lowercase(c) == c \in Lowercase
is_ascii_uppercase(c) == c \in Uppercase
is_ascii_digit(c) == c \in Digits
is_ascii_alphanumeric(c) == c \in Lowercase \cup Uppercase \cup Digits

\* A character outside ASCII, which UTF-8 encodes in two bytes.
NonAscii == {"é"}
len_utf8(c) == IF c \in NonAscii THEN 2 ELSE 1

\* str::len: the length of the string in bytes.
RECURSIVE len(_)
len(s) == IF s = <<>> THEN 0 ELSE len_utf8(Head(s)) + len(Tail(s))

to_lowercase_char(c) ==
    CASE c = "A" -> "a"
      [] c = "B" -> "b"
      [] c = "P" -> "p"
      [] OTHER -> c

to_lowercase(s) == [i \in 1..Len(s) |-> to_lowercase_char(s[i])]

contains(s, sub) ==
    \E i \in 0..(Len(s) - Len(sub)) :
        \A j \in 1..Len(sub) : s[i + j] = sub[j]

\* Excerpt of the blocklist the password_policy crate ships.
COMMON_PASSWORDS == { <<"p", "a", "s", "s", "w", "o", "r", "d">> }


MIN_ENTROPY == 80   \* policy.min_entropy of HighSecurityPolicy::default()

\* Size of the alphabet the classes present in the password span.
pool_size(password) ==
    (IF \E i \in 1..Len(password) : is_ascii_lowercase(password[i]) THEN 26 ELSE 0)
  + (IF \E i \in 1..Len(password) : is_ascii_uppercase(password[i]) THEN 26 ELSE 0)
  + (IF \E i \in 1..Len(password) : is_ascii_digit(password[i]) THEN 10 ELSE 0)
  + (IF \E i \in 1..Len(password) : ~is_ascii_alphanumeric(password[i]) THEN 32 ELSE 0)

\* floor(log2(n)), a lower estimate of the bits one character carries.
RECURSIVE log2(_)
log2(n) == IF n <= 1 THEN 0 ELSE 1 + log2(n \div 2)

\* policy.meets_requirements(password): the class-weighted entropy estimate.
meets_requirements(password) ==
    /\ Len(password) >= MIN_LENGTH
    /\ Len(password) * log2(pool_size(password)) >= MIN_ENTROPY

(***************************************************************************)
(* AppError and its mapping to a response (error.rs).                      *)
(***************************************************************************)
NotFound(msg) == [variant |-> "NotFound", message |-> msg, code |-> "-"]
Validation(msg) == [variant |-> "Validation", message |-> msg, code |-> "-"]
Unauthorized(msg) == [variant |-> "Unauthorized", message |-> msg, code |-> "-"]
\* sqlx::Error: RowNotFound, a database error with an SQLSTATE, or an i/o error.
Sqlx(code) == [variant |-> "Sqlx", message |-> "database error", code |-> code]

\* A mapping that knows no constraint code.
map_sqlx_error_to_status_without_codes(error) ==
    CASE error.code = "RowNotFound" -> 404
      [] OTHER -> 500

map_sqlx_error_to_status(error) ==
    CASE error.code = "RowNotFound" -> 404
      [] error.code = "23505" -> 409
      [] error.code = "23503" -> 409
      [] error.code = "P0001" -> 400
      [] OTHER -> 500

status_code(error) ==
    CASE error.variant = "NotFound" -> 404
      [] error.variant = "Validation" -> 400
      [] error.variant = "Unauthorized" -> 401
      [] error.variant = "Email" -> 500
      [] error.variant = "Internal" -> 500
      [] error.variant = "Sqlx" -> map_sqlx_error_to_status(error)
      [] error.variant = "Serde" -> 500

message(error) ==
    CASE error.variant = "Sqlx" /\ error.code = "RowNotFound" -> "resource not found"
      [] error.variant = "Sqlx" /\ error.code \in {"23505", "23503", "P0001"} -> error.code
      [] error.variant = "Sqlx" -> "database error"
      [] error.variant = "Serde" -> "unexpected error"
      [] OTHER -> error.message

\* A response: status, body and the Set-Cookie header (None: no header;
\* Some(0): session_id=; Max-Age=0; Some(n): the n-th session's UUID).
into_response(error) ==
    [status |-> status_code(error), body |-> message(error), set_cookie |-> None]

Ok(status, body) == [status |-> status, body |-> body, set_cookie |-> None]
WithCookie(status, body, cookie) == [status |-> status, body |-> body, set_cookie |-> Some(cookie)]
NoResponse == [status |-> 0, body |-> "-", set_cookie |-> None]

(***************************************************************************)
(* ensure_password_requirements (auth.rs): the first violated rule wins.   *)
(* The result is None for Ok(()) or Some(error).                           *)
(***************************************************************************)
ensure_password_requirements(password) ==
    IF len(password) < MIN_LENGTH
    THEN Some(Validation("password must be at least 20 characters long"))
    ELSE IF ~\E i \in 1..Len(password) : is_ascii_lowercase(password[i])
    THEN Some(Validation("password must include at least one lowercase letter"))
    ELSE IF ~\E i \in 1..Len(password) : is_ascii_uppercase(password[i])
    THEN Some(Validation("password must include at least one uppercase letter"))
    ELSE IF ~\E i \in 1..Len(password) : is_ascii_digit(password[i])
    THEN Some(Validation("password must include at least one number"))
    ELSE IF ~\E i \in 1..Len(password) : ~is_ascii_alphanumeric(password[i])
    THEN Some(Validation("password must include at least one symbol"))
    ELSE IF \E candidate \in COMMON_PASSWORDS : contains(to_lowercase(password), candidate)
    THEN Some(Validation("password is too common or predictable"))
    ELSE IF ~meets_requirements(password)
    THEN Some(Validation("password must provide at least 80 bits of entropy"))
    ELSE None

(***************************************************************************)
(* Argon2: a hash is the password under a salt; verification recomputes.   *)
(***************************************************************************)
Salts == {"s1"}
hash_password(password, salt) == [password |-> password, salt |-> salt]
verify_password(password, parsed_hash) ==
    hash_password(password, parsed_hash.salt) = parsed_hash

\* PasswordHash::new parses the stored text: whether it is Ok.  A stored value
\* that is no PHC string has no salt the parser accepts.
CorruptHash == [password |-> <<>>, salt |-> "?"]
PasswordHash_new(stored) == stored.salt \in Salts

(***************************************************************************)
(* Request inputs.                                                         *)
(***************************************************************************)
PwStrongA == <<"A", "1", "!">> \o Rep("a", 17)
PwStrongB == <<"B", "2", "?">> \o Rep("b", 17)
PwWeak == Rep("a", 19)
Passwords == {PwStrongA, PwStrongB, PwWeak}

Emails == {"admin@uni", "club@uni", "nobody@uni"}


\* A setup token is base64 (STANDARD alphabet, which has '+'); a client that
\* sends it form-encoded turns '+' into ' '.
SetupToken(n) == <<n, "+">>
Mangled(token) == <<token[1], " ">>
\* token.replace(' ', "+")
replace_space_by_plus(token) == <<token[1], IF token[2] = " " THEN "+" ELSE token[2]>>

\* The Cookie header: None, or Some(text); text n > 0 is the UUID of the n-th
\* generated session, any other text is no UUID.
NotAUuid == 0 - 1
parse_str(text) == IF text > 0 THEN Some(text) ELSE None

(***************************************************************************)
(* Handler-local state.                                                    *)
(***************************************************************************)
NoTx == [account |-> None, token |-> None, sessions |-> {},
         events_put |-> {}, events_del |-> {}, audit |-> {}, invite |-> None]

Idle == [op |-> "-", cookie |-> None, email |-> "-", password |-> <<>>,
         new_password |-> <<>>, token |-> <<0, "+">>, reset_token |-> 0, id |-> 0,
         user |-> None, account_id |-> 0, token_id |-> 0, hash |-> None,
         expires_at |-> 0, existing |-> None, title |-> None, request |-> 0,
         failAt |-> 0, tx |-> NoTx, rows |-> {}]

\* What stays known of a request once it is answered.
Summary(l) == [Idle EXCEPT !.op = l.op, !.cookie = l.cookie, !.token = l.token,
                           !.reset_token = l.reset_token,
                           !.account_id = l.account_id, !.id = l.id,
                           !.request = l.request, !.failAt = l.failAt,
                           !.rows = l.rows]

\* The statement (counted per handler, in program order) the database fails.
FaultChoices(n) == IF faultsOn THEN 0..n ELSE {0}
\* Whether the SMTP relay accepts a message (a failure is logged and swallowed).
DeliveryChoices == IF faultsOn THEN BOOLEAN ELSE {TRUE}

\* A task slot that has served no request yet.
Unused(q) == pc[q] = "idle" /\ local[q].op = "-"

\* Tasks are anonymous: a request is taken by the first slot that has served
\* none, or by any free slot when all have.  While the database is failing
\* statements, requests are served one at a time.
Accept(p) ==
    /\ pc[p] = "idle"
    /\ IF Unused(p)
       THEN \A q \in Procs : q < p => ~Unused(q)
       ELSE \A q \in Procs : ~Unused(q)
    /\ faultsOn => \A q \in Procs : pc[q] = "idle"
    /\ started < MaxEvents
    /\ started' = started + 1

Goto(p, label, l) ==
    /\ pc' = [pc EXCEPT ![p] = label]
    /\ local' = [local EXCEPT ![p] = l]
    /\ resp' = [resp EXCEPT ![p] = NoResponse]

\* `?` on a failed statement: the sqlx error becomes the response; an open
\* transaction is dropped, which rolls it back.
DbError == into_response(Sqlx("io"))

\* The handler returns; failAt stays known only if that statement was reached
\* and failed.
Reply(p, response, l) ==
    /\ pc' = [pc EXCEPT ![p] = "idle"]
    /\ local' = [local EXCEPT ![p] =
                    Summary(IF response = DbError THEN l ELSE [l EXCEPT !.failAt = 0])]
    /\ resp' = [resp EXCEPT ![p] = response]

(***************************************************************************)
(* Row locks of open transactions.                                         *)
(***************************************************************************)
AccountLocked(id, p) ==
    \E q \in Procs \ {p} : is_some(local[q].tx.account) /\ unwrap(local[q].tx.account).id = id

TokenLocked(id, p) ==
    \E q \in Procs \ {p} : is_some(local[q].tx.token) /\ unwrap(local[q].tx.token).id = id

SessionLocked(id, p) ==
    \E q \in Procs \ {p} : id \in local[q].tx.sessions

(***************************************************************************)
(* tx.commit(): the buffered writes reach the tables in one step.          *)
(***************************************************************************)
CommitAccounts(tx) ==
    LET put == IF is_some(tx.invite) THEN accounts \cup tx.invite ELSE accounts
    IN IF is_none(tx.account) THEN put
       ELSE { IF a.id = unwrap(tx.account).id
              THEN [a EXCEPT !.password_hash = Some(unwrap(tx.account).password_hash)]
              ELSE a : a \in put }

CommitTokens(tx) ==
    IF is_none(tx.token) THEN password_reset_tokens
    ELSE { IF t.id = unwrap(tx.token).id
           THEN [t EXCEPT !.used_at = Some(unwrap(tx.token).used_at)]
           ELSE t : t \in password_reset_tokens }

CommitSessions(tx) == { s \in sessions : s.id \notin tx.sessions }

(***************************************************************************)
(* Session Manager: current_user_from_headers (shared.rs).                 *)
(***************************************************************************)
\* The lookup with the expiry compared by >= : a session still resolves in the
\* instant it expires.
session_rows_at_expiry(uuid) ==
    { [account_id |-> a.id, account_type |-> a.account_type, organizer_id |-> a.organizer_id] :
        a \in { a \in accounts :
                  \E s \in sessions : s.id = uuid /\ s.account_id = a.id /\ s.expires_at >= now } }

session_rows(uuid) ==
    { [account_id |-> a.id, account_type |-> a.account_type, organizer_id |-> a.organizer_id] :
        a \in { a \in accounts :
                  \E s \in sessions : s.id = uuid /\ s.account_id = a.id /\ s.expires_at > now } }

current_user_from_headers(cookie) ==
    IF is_none(cookie)
    THEN [ok |-> FALSE, err |-> Unauthorized("missing session")]
    ELSE IF is_none(parse_str(unwrap(cookie)))
    THEN [ok |-> FALSE, err |-> Unauthorized("invalid session format")]
    ELSE IF session_rows(unwrap(parse_str(unwrap(cookie)))) = {}
    THEN [ok |-> FALSE, err |-> Unauthorized("invalid or expired session")]
    ELSE [ok |-> TRUE, user |-> CHOOSE r \in session_rows(unwrap(parse_str(unwrap(cookie)))) : TRUE]

is_admin(user) == user.account_type = "Admin"

\* Cookie headers a client can send: none, garbage, or any UUID generated so far.
Cookies == {None, Some(NotAUuid)} \cup { Some(n) : n \in 1..issued.sessions }

\* INSERT INTO sessions (id, account_id, expires_at), 24 hours expiry.
NewSession(account_id) ==
    [id |-> issued.sessions + 1, account_id |-> account_id, expires_at |-> now + SESSION_TTL]

AccountById(id) == CHOOSE a \in accounts : a.id = id

\* determine_newsletter_access reads the database for organizer accounts only.
NewsletterReads(account_id) == AccountById(account_id).account_type = "Organizer"


(***************************************************************************)
(* POST /auth/login                                                        *)
(* statements: 1 SELECT accounts, 2 INSERT sessions, 3 SELECT organizers   *)
(***************************************************************************)
InvalidCredentials == into_response(Unauthorized("invalid e-mail or password"))

\* A login that answers an unparsable stored hash with an internal error.
LoginReportingCorruptHash(p) ==
    /\ Accept(p)
    /\ \E email \in Emails, password \in Passwords, f \in FaultChoices(3) :
        LET l == [Idle EXCEPT !.op = "login", !.email = email, !.password = password,
                              !.failAt = f]
            rec == { a \in accounts : a.email = Some(email) }
        IN /\ IF f = 1 THEN Reply(p, DbError, l)
              ELSE IF rec = {} THEN Reply(p, InvalidCredentials, l)
              ELSE LET row == CHOOSE a \in rec : TRUE
                       found == [l EXCEPT !.account_id = row.id]
                   IN IF is_none(row.password_hash) THEN Reply(p, InvalidCredentials, found)
                      ELSE IF ~PasswordHash_new(unwrap(row.password_hash))
                      THEN Reply(p, [status |-> 500, body |-> "invalid password hash",
                                     set_cookie |-> None], found)
                      ELSE IF ~verify_password(password, unwrap(row.password_hash))
                      THEN Reply(p, InvalidCredentials, found)
                      ELSE Goto(p, "login_insert",
                                [Idle EXCEPT !.op = "login", !.failAt = f, !.account_id = row.id,
                                             !.hash = row.password_hash])
           /\ UNCHANGED <<authTables, eventTables, env, issued, outbox>>

\* A login that lets an account without password_hash in.
LoginOfUninitialized(p) ==
    /\ Accept(p)
    /\ \E email \in Emails, password \in Passwords, f \in FaultChoices(3) :
        LET l == [Idle EXCEPT !.op = "login", !.email = email, !.password = password,
                              !.failAt = f]
            rec == { a \in accounts : a.email = Some(email) }
        IN /\ IF f = 1 THEN Reply(p, DbError, l)
              ELSE IF rec = {} THEN Reply(p, InvalidCredentials, l)
              ELSE LET row == CHOOSE a \in rec : TRUE
                   IN IF is_some(row.password_hash)
                         /\ ~verify_password(password, unwrap(row.password_hash))
                      THEN Reply(p, InvalidCredentials, l)
                      ELSE Goto(p, "login_insert",
                                [Idle EXCEPT !.op = "login", !.failAt = f, !.account_id = row.id,
                                             !.hash = row.password_hash])
           /\ UNCHANGED <<authTables, eventTables, env, issued, outbox>>

Login(p) ==
    /\ Accept(p)
    /\ \E email \in Emails, password \in Passwords, f \in FaultChoices(3) :
        LET l == [Idle EXCEPT !.op = "login", !.email = email, !.password = password,
                              !.failAt = f]
            rec == { a \in accounts : a.email = Some(email) }
        IN /\ IF f = 1 THEN Reply(p, DbError, l)
              ELSE IF rec = {} THEN Reply(p, InvalidCredentials, l)
              ELSE LET row == CHOOSE a \in rec : TRUE
                       found == [l EXCEPT !.account_id = row.id]
                   IN IF is_none(row.password_hash) THEN Reply(p, InvalidCredentials, found)
                      ELSE IF ~PasswordHash_new(unwrap(row.password_hash))
                      THEN Reply(p, InvalidCredentials, found)
                      ELSE IF ~verify_password(password, unwrap(row.password_hash))
                      THEN Reply(p, InvalidCredentials, found)
                      ELSE Goto(p, "login_insert",
                                [Idle EXCEPT !.op = "login", !.failAt = f, !.account_id = row.id,
                                             !.hash = row.password_hash])
           /\ UNCHANGED <<authTables, eventTables, env, issued, outbox>>

\* A login that also renews the sessions the account already has.
LoginInsertExtendingSessions(p) ==
    LET l == local[p]
        session == NewSession(l.account_id)
    IN /\ pc[p] = "login_insert"
       /\ IF l.failAt = 2
          THEN /\ Reply(p, DbError, l)
               /\ UNCHANGED <<sessions, issued>>
          ELSE /\ sessions' = { IF s.account_id = l.account_id
                                 THEN [s EXCEPT !.expires_at = session.expires_at]
                                 ELSE s : s \in sessions } \cup {session}
               /\ issued' = [issued EXCEPT !.sessions = @ + 1]
               /\ IF l.failAt = 3 /\ NewsletterReads(l.account_id)
                  THEN Reply(p, DbError, l)
                  ELSE Reply(p, WithCookie(200, "AuthUserResponse", session.id), l)
       /\ UNCHANGED <<accounts, password_reset_tokens, eventTables, env, started, outbox>>

LoginInsert(p) ==
    LET l == local[p]
        session == NewSession(l.account_id)
    IN /\ pc[p] = "login_insert"
       /\ IF l.failAt = 2
          THEN /\ Reply(p, DbError, l)
               /\ UNCHANGED <<sessions, issued>>
          ELSE /\ sessions' = sessions \cup {session}
               /\ issued' = [issued EXCEPT !.sessions = @ + 1]
               /\ IF l.failAt = 3 /\ NewsletterReads(l.account_id)
                  THEN Reply(p, DbError, l)
                  ELSE Reply(p, WithCookie(200, "AuthUserResponse", session.id), l)
       /\ UNCHANGED <<accounts, password_reset_tokens, eventTables, env, started, outbox>>

(***************************************************************************)
(* ensure_pending_setup_token                                              *)
(***************************************************************************)
ensure_pending_setup_token(token) ==
    LET normalized_token == replace_space_by_plus(token)
        rows == { a \in accounts : a.setup_token = Some(normalized_token) }
    IN IF rows = {}
       THEN [ok |-> FALSE, err |-> Validation("invalid setup token")]
       ELSE LET row == CHOOSE a \in rows : TRUE
            IN IF ~(is_some(row.setup_token_expires_at)
                    /\ unwrap(row.setup_token_expires_at) > now)
               THEN [ok |-> FALSE, err |-> Validation("setup token expired")]
               ELSE IF is_some(row.password_hash)
               THEN [ok |-> FALSE, err |-> Validation("account already initialized")]
               ELSE [ok |-> TRUE, account_id |-> row.id]

\* Setup tokens a client can present: every token generated so far, as issued or
\* with its '+' turned into a space, and one that was never issued.
SetupTokenInputs ==
    { SetupToken(n) : n \in 0..issued.setup_tokens }
      \cup { Mangled(SetupToken(n)) : n \in 1..issued.setup_tokens }

(***************************************************************************)
(* POST /auth/register-info                                                *)
(***************************************************************************)
LookupSetupToken(p) ==
    /\ Accept(p)
    /\ \E token \in SetupTokenInputs, f \in FaultChoices(1) :
        LET l == [Idle EXCEPT !.op = "lookup_setup_token", !.token = token, !.failAt = f]
            pending == ensure_pending_setup_token(token)
        IN /\ IF f = 1 THEN Reply(p, DbError, l)
              ELSE IF ~pending.ok THEN Reply(p, into_response(pending.err), l)
              ELSE Reply(p, Ok(200, "SetupTokenInfoResponse"), [l EXCEPT !.account_id = pending.account_id])
           /\ UNCHANGED <<authTables, eventTables, env, issued, outbox>>

(***************************************************************************)
(* POST /auth/init                                                         *)
(* statements: 1 SELECT accounts, 2 UPDATE accounts, 3 INSERT sessions,    *)
(*             4 SELECT organizers                                         *)
(***************************************************************************)
InitAccount(p) ==
    /\ Accept(p)
    /\ \E token \in SetupTokenInputs, email \in Emails, password \in Passwords,
       salt \in Salts, f \in FaultChoices(4) :
        LET l == [Idle EXCEPT !.op = "init_account", !.token = token, !.email = email,
                              !.password = password, !.failAt = f]
            pending == ensure_pending_setup_token(token)
        IN /\ IF f = 1 THEN Reply(p, DbError, l)
              ELSE IF ~pending.ok THEN Reply(p, into_response(pending.err), l)
              ELSE IF is_some(ensure_password_requirements(password))
              THEN Reply(p, into_response(unwrap(ensure_password_requirements(password))),
                         [l EXCEPT !.account_id = pending.account_id])
              ELSE Goto(p, "init_update",
                        [l EXCEPT !.account_id = pending.account_id,
                                  !.password = <<>>,
                                  !.hash = Some(hash_password(password, salt))])
           /\ UNCHANGED <<authTables, eventTables, env, issued, outbox>>

\* UPDATE accounts SET email, password_hash, setup_token = NULL,
\* setup_token_expires_at = NULL WHERE id = $3
InitAccountUpdate(l) ==
    { IF a.id = l.account_id
      THEN [a EXCEPT !.email = Some(l.email), !.password_hash = l.hash,
                     !.setup_token = None, !.setup_token_expires_at = None]
      ELSE a : a \in accounts }

\* accounts.email is unique: the statement fails with SQLSTATE 23505.
EmailTaken(email, id) == \E a \in accounts : a.id # id /\ a.email = Some(email)

InitUpdate(p) ==
    LET l == local[p]
    IN /\ pc[p] = "init_update"
       /\ ~AccountLocked(l.account_id, p)
       /\ IF l.failAt = 2
          THEN Reply(p, DbError, l) /\ UNCHANGED accounts
          ELSE IF EmailTaken(l.email, l.account_id)
          THEN Reply(p, into_response(Sqlx("23505")), l) /\ UNCHANGED accounts
          ELSE accounts' = InitAccountUpdate(l) /\ Goto(p, "init_insert", l)
       /\ UNCHANGED <<sessions, password_reset_tokens, eventTables, env, issued, started, outbox>>

\* The welcome e-mail sent with `?`: a refused message fails the request.
InitInsertNeedingWelcomeMail(p) ==
    LET l == local[p]
        session == NewSession(l.account_id)
    IN /\ pc[p] = "init_insert"
       /\ IF l.failAt = 3
          THEN /\ Reply(p, DbError, l)
               /\ UNCHANGED <<sessions, issued, outbox>>
          ELSE /\ sessions' = sessions \cup {session}
               /\ issued' = [issued EXCEPT !.sessions = @ + 1]
               /\ \E delivered \in DeliveryChoices :
                    /\ outbox' = IF delivered
                                 THEN outbox \cup {[kind |-> "welcome", to |-> l.email, token |-> 0]}
                                 ELSE outbox
                    /\ IF ~delivered
                       THEN Reply(p, [status |-> 500, body |-> "email error", set_cookie |-> None], l)
                       ELSE IF l.failAt = 4 /\ NewsletterReads(l.account_id)
                       THEN Reply(p, DbError, l)
                       ELSE Reply(p, WithCookie(200, "AuthUserResponse", session.id), l)
       /\ UNCHANGED <<accounts, password_reset_tokens, eventTables, env, started>>

InitInsert(p) ==
    LET l == local[p]
        session == NewSession(l.account_id)
    IN /\ pc[p] = "init_insert"
       /\ IF l.failAt = 3
          THEN /\ Reply(p, DbError, l)
               /\ UNCHANGED <<sessions, issued, outbox>>
          ELSE /\ sessions' = sessions \cup {session}
               /\ issued' = [issued EXCEPT !.sessions = @ + 1]
               /\ \E delivered \in DeliveryChoices :
                    outbox' = IF delivered
                              THEN outbox \cup {[kind |-> "welcome", to |-> l.email, token |-> 0]}
                              ELSE outbox
               /\ IF l.failAt = 4 /\ NewsletterReads(l.account_id)
                  THEN Reply(p, DbError, l)
                  ELSE Reply(p, WithCookie(200, "AuthUserResponse", session.id), l)
       /\ UNCHANGED <<accounts, password_reset_tokens, eventTables, env, started>>

(***************************************************************************)
(* POST /auth/logout  (statement 1: DELETE FROM sessions WHERE id = $1)    *)
(***************************************************************************)
\* A logout that looks at rows_affected and reports a session that is not there.
LogoutOfStoredSessionOnly(p) ==
    /\ Accept(p)
    /\ \E cookie \in Cookies, f \in FaultChoices(1) :
        LET l == [Idle EXCEPT !.op = "logout", !.cookie = cookie, !.failAt = f]
        IN /\ IF is_none(cookie)
              THEN Reply(p, Ok(204, ""), l) /\ UNCHANGED sessions
              ELSE IF is_none(parse_str(unwrap(cookie)))
              THEN Reply(p, WithCookie(204, "", 0), l)
                   /\ UNCHANGED sessions
              ELSE /\ ~SessionLocked(unwrap(cookie), p)
                   /\ IF f = 1
                      THEN Reply(p, DbError, l) /\ UNCHANGED sessions
                      ELSE /\ sessions' = { s \in sessions : s.id # unwrap(cookie) }
                           /\ IF \E s \in sessions : s.id = unwrap(cookie)
                              THEN Reply(p, WithCookie(204, "", 0), l)
                              ELSE Reply(p, into_response(NotFound("session not found")), l)
           /\ UNCHANGED <<accounts, password_reset_tokens, eventTables, env, issued, outbox>>

Logout(p) ==
    /\ Accept(p)
    /\ \E cookie \in Cookies, f \in FaultChoices(1) :
        LET l == [Idle EXCEPT !.op = "logout", !.cookie = cookie, !.failAt = f]
        IN /\ IF is_none(cookie)
              THEN Reply(p, Ok(204, ""), l) /\ UNCHANGED sessions
              ELSE IF is_none(parse_str(unwrap(cookie)))
              THEN Reply(p, WithCookie(204, "", 0), l)
                   /\ UNCHANGED sessions
              ELSE /\ ~SessionLocked(unwrap(cookie), p)
                   /\ IF f = 1
                      THEN Reply(p, DbError, l) /\ UNCHANGED sessions
                      ELSE /\ sessions' = { s \in sessions : s.id # unwrap(cookie) }
                           /\ Reply(p, WithCookie(204, "", 0), l)
           /\ UNCHANGED <<accounts, password_reset_tokens, eventTables, env, issued, outbox>>

(***************************************************************************)
(* GET /auth/me  (statements: 1 SELECT sessions JOIN accounts,             *)
(*                2 SELECT organizers)                                     *)
(***************************************************************************)
Me(p) ==
    /\ Accept(p)
    /\ \E cookie \in Cookies, f \in FaultChoices(2) :
        LET l == [Idle EXCEPT !.op = "me", !.cookie = cookie, !.failAt = f]
            who == current_user_from_headers(cookie)
        IN /\ IF ~who.ok /\ who.err.message # "invalid or expired session"
              THEN Reply(p, into_response(who.err), l)
              ELSE IF f = 1 THEN Reply(p, DbError, l)
              ELSE IF ~who.ok THEN Reply(p, into_response(who.err), l)
              ELSE IF f = 2 /\ NewsletterReads(who.user.account_id)
              THEN Reply(p, DbError, [l EXCEPT !.account_id = who.user.account_id])
              ELSE Reply(p, Ok(200, "AuthUserResponse"),
                         [l EXCEPT !.account_id = who.user.account_id])
           /\ UNCHANGED <<authTables, eventTables, env, issued, outbox>>


(***************************************************************************)
(* POST /auth/change-password                                              *)
(* statements: 1 SELECT sessions JOIN accounts, 2 SELECT accounts,         *)
(*   3 BEGIN; UPDATE accounts, 4 DELETE FROM sessions, 5 COMMIT            *)
(***************************************************************************)
ChangePassword(p) ==
    /\ Accept(p)
    /\ \E cookie \in Cookies, current_password \in Passwords, new_password \in Passwords,
       f \in FaultChoices(5) :
        LET l == [Idle EXCEPT !.op = "change_password", !.cookie = cookie,
                              !.password = current_password,
                              !.new_password = new_password, !.failAt = f]
            who == current_user_from_headers(cookie)
        IN /\ IF ~who.ok /\ who.err.message # "invalid or expired session"
              THEN Reply(p, into_response(who.err), l)
              ELSE IF f = 1 THEN Reply(p, DbError, l)
              ELSE IF ~who.ok THEN Reply(p, into_response(who.err), l)
              ELSE Goto(p, "cp_select", [l EXCEPT !.cookie = None, !.account_id = who.user.account_id])
           /\ UNCHANGED <<authTables, eventTables, env, issued, outbox>>

\* change_password without its call of ensure_password_requirements.
CpSelectWithoutPolicy(p) ==
    /\ pc[p] = "cp_select"
    /\ \E salt \in Salts :
        LET l == local[p]
            rec == { a \in accounts : a.id = l.account_id }
        IN /\ IF l.failAt = 2 THEN Reply(p, DbError, l)
              ELSE IF rec = {} THEN Reply(p, into_response(Sqlx("RowNotFound")), l)
              ELSE LET stored == (CHOOSE a \in rec : TRUE).password_hash
                   IN IF is_none(stored)
                      THEN Reply(p, into_response(Validation("account not initialized")), l)
                      ELSE IF ~verify_password(l.password, unwrap(stored))
                      THEN Reply(p, into_response(Unauthorized("invalid current password")), l)
                      ELSE Goto(p, "cp_update",
                                [l EXCEPT !.password = <<>>, !.new_password = <<>>,
                                          !.hash = Some(hash_password(l.new_password, salt))])
           /\ UNCHANGED <<authTables, eventTables, env, issued, started, outbox>>

CpSelect(p) ==
    /\ pc[p] = "cp_select"
    /\ \E salt \in Salts :
        LET l == local[p]
            rec == { a \in accounts : a.id = l.account_id }
        IN /\ IF l.failAt = 2 THEN Reply(p, DbError, l)
              ELSE IF rec = {} THEN Reply(p, into_response(Sqlx("RowNotFound")), l)
              ELSE LET stored == (CHOOSE a \in rec : TRUE).password_hash
                   IN IF is_none(stored)
                      THEN Reply(p, into_response(Validation("account not initialized")), l)
                      ELSE IF ~verify_password(l.password, unwrap(stored))
                      THEN Reply(p, into_response(Unauthorized("invalid current password")), l)
                      ELSE IF is_some(ensure_password_requirements(l.new_password))
                      THEN Reply(p, into_response(unwrap(ensure_password_requirements(l.new_password))), l)
                      ELSE Goto(p, "cp_update",
                                [l EXCEPT !.password = <<>>, !.new_password = <<>>,
                                          !.hash = Some(hash_password(l.new_password, salt))])
           /\ UNCHANGED <<authTables, eventTables, env, issued, started, outbox>>

\* BEGIN; UPDATE accounts SET password_hash = $1 WHERE id = $2  (inside tx)
TxUpdatePassword(p, next, failing) ==
    LET l == local[p]
    IN /\ ~AccountLocked(l.account_id, p)
       /\ IF l.failAt = failing THEN Reply(p, DbError, l)
          ELSE Goto(p, next,
                    [l EXCEPT !.tx.account =
                        IF \E a \in accounts : a.id = l.account_id
                        THEN Some([id |-> l.account_id, password_hash |-> unwrap(l.hash)])
                        ELSE None])
       /\ UNCHANGED <<authTables, eventTables, env, issued, started, outbox>>

\* DELETE FROM sessions WHERE account_id = $1  (inside tx): the rows committed
\* when the statement runs.
TxDeleteSessions(p, next, failing) ==
    LET l == local[p]
        rows == { s.id : s \in { s \in sessions : s.account_id = l.account_id } }
    IN /\ \A id \in rows : ~SessionLocked(id, p)
       /\ IF l.failAt = failing THEN Reply(p, DbError, l)
          ELSE Goto(p, next, [l EXCEPT !.tx.sessions = rows])
       /\ UNCHANGED <<authTables, eventTables, env, issued, started, outbox>>

\* tx.commit().await?
TxCommitAuth(p, failing) ==
    LET l == local[p]
    IN /\ IF l.failAt = failing
          THEN Reply(p, DbError, l) /\ UNCHANGED authTables
          ELSE /\ accounts' = CommitAccounts(l.tx)
               /\ password_reset_tokens' = CommitTokens(l.tx)
               /\ sessions' = CommitSessions(l.tx)
               /\ Reply(p, Ok(204, ""), l)
       /\ UNCHANGED <<eventTables, env, issued, started, outbox>>

CpUpdate(p) == pc[p] = "cp_update" /\ TxUpdatePassword(p, "cp_delete", 3)
CpDelete(p) == pc[p] = "cp_delete" /\ TxDeleteSessions(p, "cp_commit", 4)
CpCommit(p) == pc[p] = "cp_commit" /\ TxCommitAuth(p, 5)

(***************************************************************************)
(* POST /auth/request-password-reset                                       *)
(* statements: 1 SELECT accounts, 2 DELETE FROM password_reset_tokens,     *)
(*             3 INSERT INTO password_reset_tokens                         *)
(***************************************************************************)
\* A lookup by email alone, without `AND password_hash IS NOT NULL`.
RequestPasswordResetOfAnyAccount(p) ==
    /\ Accept(p)
    /\ \E email \in Emails, f \in FaultChoices(3) :
        LET l == [Idle EXCEPT !.op = "request_password_reset", !.email = email, !.failAt = f]
            rec == { a \in accounts : a.email = Some(email) }
        IN /\ IF f = 1 THEN Reply(p, DbError, l)
              ELSE IF rec = {} THEN Reply(p, Ok(204, ""), l)
              ELSE Goto(p, "rpr_delete",
                        [l EXCEPT !.account_id = (CHOOSE a \in rec : TRUE).id,
                                  !.expires_at = now + RESET_TOKEN_TTL])
           /\ UNCHANGED <<authTables, eventTables, env, issued, outbox>>

RequestPasswordReset(p) ==
    /\ Accept(p)
    /\ \E email \in Emails, f \in FaultChoices(3) :
        LET l == [Idle EXCEPT !.op = "request_password_reset", !.email = email, !.failAt = f]
            rec == { a \in accounts : a.email = Some(email) /\ is_some(a.password_hash) }
        IN /\ IF f = 1 THEN Reply(p, DbError, l)
              ELSE IF rec = {} THEN Reply(p, Ok(204, ""), l)
              ELSE Goto(p, "rpr_delete",
                        [l EXCEPT !.account_id = (CHOOSE a \in rec : TRUE).id,
                                  !.expires_at = now + RESET_TOKEN_TTL])
           /\ UNCHANGED <<authTables, eventTables, env, issued, outbox>>

RprDelete(p) ==
    LET l == local[p]
    IN /\ pc[p] = "rpr_delete"
       /\ \A t \in password_reset_tokens : t.account_id = l.account_id => ~TokenLocked(t.id, p)
       /\ IF l.failAt = 2
          THEN Reply(p, DbError, l) /\ UNCHANGED password_reset_tokens
          ELSE /\ password_reset_tokens' =
                    { t \in password_reset_tokens : t.account_id # l.account_id }
               /\ Goto(p, "rpr_insert", l)
       /\ UNCHANGED <<accounts, sessions, eventTables, env, issued, started, outbox>>

RprInsert(p) ==
    LET l == local[p]
        n == issued.reset_tokens + 1
    IN /\ pc[p] = "rpr_insert"
       /\ IF l.failAt = 3
          THEN Reply(p, DbError, l) /\ UNCHANGED <<password_reset_tokens, issued, outbox>>
          ELSE /\ password_reset_tokens' = password_reset_tokens \cup
                    {[id |-> n, account_id |-> l.account_id, token |-> n,
                      expires_at |-> l.expires_at, used_at |-> None]}
               /\ issued' = [issued EXCEPT !.reset_tokens = n]
               /\ \E delivered \in DeliveryChoices :
                    outbox' = IF delivered
                              THEN outbox \cup {[kind |-> "reset", to |-> l.email, token |-> n]}
                              ELSE outbox
               /\ Reply(p, Ok(204, ""), [l EXCEPT !.reset_token = n])
       /\ UNCHANGED <<accounts, sessions, eventTables, env, started>>

(***************************************************************************)
(* POST /auth/reset-password                                               *)
(* statements: 1 SELECT password_reset_tokens JOIN accounts,               *)
(*   2 BEGIN; UPDATE accounts, 3 UPDATE password_reset_tokens,             *)
(*   4 DELETE FROM sessions, 5 COMMIT                                      *)
(***************************************************************************)
\* The same lookup without `AND prt.used_at IS NULL`.
valid_reset_tokens_any_use(token) ==
    { t \in password_reset_tokens :
        /\ t.token = token
        /\ t.expires_at > now
        /\ \E a \in accounts : a.id = t.account_id }

\* WHERE prt.token = $1 AND prt.expires_at > NOW() AND prt.used_at IS NULL
valid_reset_tokens(token) ==
    { t \in password_reset_tokens :
        /\ t.token = token
        /\ t.expires_at > now
        /\ is_none(t.used_at)
        /\ \E a \in accounts : a.id = t.account_id }

\* A reset_password that marks the token used before it looks at the password.
ResetPasswordConsumingFirst(p) ==
    /\ Accept(p)
    /\ \E token \in 0..issued.reset_tokens, new_password \in Passwords, salt \in Salts,
       f \in FaultChoices(5) :
        LET l == [Idle EXCEPT !.op = "reset_password", !.reset_token = token,
                              !.new_password = new_password, !.failAt = f]
            rec == valid_reset_tokens(token)
        IN /\ IF f = 1 THEN Reply(p, DbError, l) /\ UNCHANGED password_reset_tokens
              ELSE IF rec = {}
              THEN /\ Reply(p, into_response(Validation("Invalid or expired reset token")), l)
                   /\ UNCHANGED password_reset_tokens
              ELSE IF is_some(ensure_password_requirements(new_password))
              THEN /\ Reply(p, into_response(unwrap(ensure_password_requirements(new_password))), l)
                   /\ password_reset_tokens' =
                         { IF t \in rec THEN [t EXCEPT !.used_at = Some(now)] ELSE t :
                             t \in password_reset_tokens }
              ELSE /\ Goto(p, "rp_update",
                        [l EXCEPT !.token_id = (CHOOSE t \in rec : TRUE).id,
                                  !.account_id = (CHOOSE t \in rec : TRUE).account_id,
                                  !.new_password = <<>>,
                                  !.hash = Some(hash_password(new_password, salt))])
                   /\ UNCHANGED password_reset_tokens
           /\ UNCHANGED <<accounts, sessions, eventTables, env, issued, outbox>>

ResetPassword(p) ==
    /\ Accept(p)
    /\ \E token \in 0..issued.reset_tokens, new_password \in Passwords, salt \in Salts,
       f \in FaultChoices(5) :
        LET l == [Idle EXCEPT !.op = "reset_password", !.reset_token = token,
                              !.new_password = new_password, !.failAt = f]
            rec == valid_reset_tokens(token)
        IN /\ IF f = 1 THEN Reply(p, DbError, l)
              ELSE IF rec = {}
              THEN Reply(p, into_response(Validation("Invalid or expired reset token")), l)
              ELSE IF is_some(ensure_password_requirements(new_password))
              THEN Reply(p, into_response(unwrap(ensure_password_requirements(new_password))), l)
              ELSE Goto(p, "rp_update",
                        [l EXCEPT !.token_id = (CHOOSE t \in rec : TRUE).id,
                                  !.account_id = (CHOOSE t \in rec : TRUE).account_id,
                                  !.new_password = <<>>,
                                  !.hash = Some(hash_password(new_password, salt))])
           /\ UNCHANGED <<authTables, eventTables, env, issued, outbox>>

RpUpdate(p) == pc[p] = "rp_update" /\ TxUpdatePassword(p, "rp_mark", 2)

\* UPDATE password_reset_tokens SET used_at = NOW() WHERE id = $1  (inside tx)
RpMark(p) ==
    LET l == local[p]
    IN /\ pc[p] = "rp_mark"
       /\ ~TokenLocked(l.token_id, p)
       /\ IF l.failAt = 3 THEN Reply(p, DbError, l)
          ELSE Goto(p, "rp_delete",
                    [l EXCEPT !.tx.token =
                        IF \E t \in password_reset_tokens : t.id = l.token_id
                        THEN Some([id |-> l.token_id, used_at |-> now])
                        ELSE None])
       /\ UNCHANGED <<authTables, eventTables, env, issued, started, outbox>>

RpDelete(p) == pc[p] = "rp_delete" /\ TxDeleteSessions(p, "rp_commit", 4)
RpCommit(p) == pc[p] = "rp_commit" /\ TxCommitAuth(p, 5)


(***************************************************************************)
(* POST /organizers/{id}/setup-token                                       *)
(* statements: 1 SELECT sessions JOIN accounts, 2 UPDATE accounts          *)
(***************************************************************************)
GenerateSetupToken(p) ==
    /\ Accept(p)
    /\ \E cookie \in Cookies, id \in 0..issued.organizers, f \in FaultChoices(2) :
        LET l == [Idle EXCEPT !.op = "generate_setup_token", !.cookie = cookie, !.id = id,
                              !.failAt = f]
            who == current_user_from_headers(cookie)
        IN /\ IF ~who.ok /\ who.err.message # "invalid or expired session"
              THEN Reply(p, into_response(who.err), l)
              ELSE IF f = 1 THEN Reply(p, DbError, l)
              ELSE IF ~who.ok THEN Reply(p, into_response(who.err), l)
              ELSE IF who.user.organizer_id # Some(id) /\ ~is_admin(who.user)
              THEN Reply(p, into_response(Unauthorized("cannot generate token for another organizer")), l)
              ELSE Goto(p, "gst_update", [l EXCEPT !.cookie = None])
           /\ UNCHANGED <<authTables, eventTables, env, issued, outbox>>

\* UPDATE accounts SET setup_token = $1, setup_token_expires_at = NOW() + '7 days'
\* WHERE organizer_id = $2 AND account_type = 'ORGANIZER'
\* The UPDATE of a re-invitation that also takes the password away.
GenerateSetupTokenResettingPassword(id, token) ==
    { IF a.organizer_id = Some(id) /\ a.account_type = "Organizer"
      THEN [a EXCEPT !.setup_token = Some(token),
                     !.setup_token_expires_at = Some(now + SETUP_TOKEN_TTL),
                     !.password_hash = None]
      ELSE a : a \in accounts }

GenerateSetupTokenUpdate(id, token) ==
    { IF a.organizer_id = Some(id) /\ a.account_type = "Organizer"
      THEN [a EXCEPT !.setup_token = Some(token),
                     !.setup_token_expires_at = Some(now + SETUP_TOKEN_TTL)]
      ELSE a : a \in accounts }

GstUpdate(p) ==
    LET l == local[p]
        token == SetupToken(issued.setup_tokens + 1)
        rows == { a \in accounts : a.organizer_id = Some(l.id) /\ a.account_type = "Organizer" }
    IN /\ pc[p] = "gst_update"
       /\ \A a \in rows : ~AccountLocked(a.id, p)
       /\ issued' = [issued EXCEPT !.setup_tokens = @ + 1]
       /\ IF l.failAt = 2
          THEN Reply(p, DbError, l) /\ UNCHANGED accounts
          ELSE /\ accounts' = GenerateSetupTokenUpdate(l.id, token)
               /\ IF rows = {}
                  THEN Reply(p, into_response(NotFound("Organizer account not found")), l)
                  ELSE Reply(p, Ok(200, "SetupTokenResponse"), [l EXCEPT !.token = token])
       /\ UNCHANGED <<sessions, password_reset_tokens, eventTables, env, started, outbox>>

(***************************************************************************)
(* POST /organizers (create_organizer) and POST /admin/invite              *)
(* statements: 1 SELECT sessions JOIN accounts, 2 BEGIN; INSERT organizers *)
(*   (create_organizer only), 3 INSERT accounts, 4 COMMIT                  *)
(***************************************************************************)
Invite(p, op) ==
    /\ Accept(p)
    /\ \E cookie \in Cookies, email \in Emails, f \in FaultChoices(4) :
        LET l == [Idle EXCEPT !.op = op, !.cookie = cookie, !.email = email, !.failAt = f]
            who == current_user_from_headers(cookie)
        IN /\ IF ~who.ok /\ who.err.message # "invalid or expired session"
              THEN Reply(p, into_response(who.err), l)
              ELSE IF f = 1 THEN Reply(p, DbError, l)
              ELSE IF ~who.ok THEN Reply(p, into_response(who.err), l)
              ELSE IF ~is_admin(who.user)
              THEN Reply(p, into_response(Unauthorized("insufficient permissions")), l)
              ELSE Goto(p, "invite_insert", [l EXCEPT !.cookie = None])
           /\ UNCHANGED <<authTables, eventTables, env, issued, outbox>>

CreateOrganizer(p) == Invite(p, "create_organizer")
InviteAdmin(p) == Invite(p, "invite_admin")

\* The row INSERT INTO accounts (...) VALUES (..., NOW() + INTERVAL '7 days') adds.
InvitedAccount(l, token) ==
    [id |-> issued.accounts + 1,
     account_type |-> IF l.op = "create_organizer" THEN "Organizer" ELSE "Admin",
     organizer_id |-> IF l.op = "create_organizer" THEN Some(issued.organizers + 1) ELSE None,
     email |-> Some(l.email),
     password_hash |-> None,
     setup_token |-> Some(token),
     setup_token_expires_at |-> Some(now + SETUP_TOKEN_TTL)]

\* The inserts run inside the transaction; the invitation e-mail is sent before
\* tx.commit().
InviteInsert(p) ==
    LET l == local[p]
        token == SetupToken(issued.setup_tokens + 1)
    IN /\ pc[p] = "invite_insert"
       /\ issued' = [issued EXCEPT !.setup_tokens = @ + 1,
                                   !.organizers = IF l.op = "create_organizer" /\ l.failAt # 2
                                                  THEN @ + 1 ELSE @,
                                   !.accounts = IF l.failAt \notin {2, 3} THEN @ + 1 ELSE @]
       /\ IF l.failAt = 2 /\ l.op = "create_organizer"
          THEN Reply(p, DbError, l) /\ UNCHANGED outbox
          ELSE IF l.failAt = 3
          THEN Reply(p, DbError, l) /\ UNCHANGED outbox
          ELSE IF EmailTaken(l.email, 0)
          THEN Reply(p, into_response(Sqlx("23505")), l) /\ UNCHANGED outbox
          ELSE /\ \E delivered \in DeliveryChoices :
                    outbox' = IF delivered
                              THEN outbox \cup {[kind |-> "invite", to |-> l.email, token |-> token[1]]}
                              ELSE outbox
               /\ Goto(p, "invite_commit",
                       [l EXCEPT !.token = token, !.tx.invite = Some(InvitedAccount(l, token))])
       /\ UNCHANGED <<authTables, eventTables, env, started>>

InviteCommit(p) ==
    LET l == local[p]
    IN /\ pc[p] = "invite_commit"
       /\ IF l.failAt = 4
          THEN Reply(p, DbError, l) /\ UNCHANGED accounts
          ELSE IF EmailTaken(l.email, 0)
          THEN Reply(p, into_response(Sqlx("23505")), l) /\ UNCHANGED accounts
          ELSE /\ accounts' = CommitAccounts(l.tx)
               /\ IF l.op = "create_organizer" /\ is_some(cache)
                  THEN Goto(p, "invalidate", l)
                  ELSE Reply(p, Ok(201, "SetupTokenResponse"), l)
       /\ UNCHANGED <<sessions, password_reset_tokens, eventTables, env, issued, started, outbox>>

(***************************************************************************)
(* Events and the audit trail (events.rs).  An event row carries one       *)
(* content column here (title_de); an audit row carries, besides its       *)
(* columns, the number of the request whose transaction inserted it.       *)
(***************************************************************************)
Titles == {"t1", "t2"}

EventLocked(id, p) ==
    \E q \in Procs \ {p} :
        id \in local[q].tx.events_del \/ \E e \in local[q].tx.events_put : e.id = id

\* SELECT ... FROM events WHERE id = $1
event_rows(id) == { e \in events : e.id = id }

\* record_audit: INSERT INTO audit_log (event_id, organizer_id, user_id, type,
\* old_data, new_data) on the caller's transaction.
\* The recorder called with its two identifiers in each other's place.
record_audit_ids_swapped(tx, event_id, organizer_id, user_id, audit_type, old_data, new_data, request) ==
    [tx EXCEPT !.audit = @ \cup
        {[id |-> issued.audit + 1, event_id |-> event_id, organizer_id |-> user_id,
          user_id |-> organizer_id, type |-> audit_type, old_data |-> old_data,
          new_data |-> new_data, request |-> request]}]

record_audit(tx, event_id, organizer_id, user_id, audit_type, old_data, new_data, request) ==
    [tx EXCEPT !.audit = @ \cup
        {[id |-> issued.audit + 1, event_id |-> event_id, organizer_id |-> organizer_id,
          user_id |-> user_id, type |-> audit_type, old_data |-> old_data,
          new_data |-> new_data, request |-> request]}]

\* transaction.commit().await?
CommitEvents(tx) ==
    { e \in events : e.id \notin tx.events_del /\ ~\E w \in tx.events_put : w.id = e.id }
        \cup tx.events_put

\* A commit that keeps only the latest entry of an event.
TxCommitEventsLatestOnly(p, failing, response) ==
    LET l == local[p]
    IN /\ IF l.failAt = failing
          THEN Reply(p, DbError, l) /\ UNCHANGED eventTables
          ELSE /\ events' = CommitEvents(l.tx)
               /\ audit_log' = { r \in audit_log :
                                   ~\E w \in l.tx.audit : w.event_id = r.event_id }
                                \cup l.tx.audit
               /\ Reply(p, response, l)
       /\ UNCHANGED <<authTables, env, issued, started, outbox>>

TxCommitEvents(p, failing, response) ==
    LET l == local[p]
    IN /\ IF l.failAt = failing
          THEN Reply(p, DbError, l) /\ UNCHANGED eventTables
          ELSE /\ events' = CommitEvents(l.tx)
               /\ audit_log' = audit_log \cup l.tx.audit
               /\ Reply(p, response, l)
       /\ UNCHANGED <<authTables, env, issued, started, outbox>>

\* The audit statement run on the pool (`&state.db`) instead: it commits on its own.
TxRecordAuditOnPool(p, next, failing, audit_type, old_data, new_data) ==
    LET l == local[p]
        subject == unwrap(IF is_some(new_data) THEN new_data ELSE old_data)
    IN /\ IF l.failAt = failing
          THEN Reply(p, DbError, l) /\ UNCHANGED <<issued, audit_log>>
          ELSE /\ issued' = [issued EXCEPT !.audit = @ + 1]
               /\ audit_log' = audit_log \cup
                     record_audit(NoTx, subject.id, subject.organizer_id, l.account_id,
                                  audit_type, old_data, new_data, l.request).audit
               /\ Goto(p, next, l)
       /\ UNCHANGED <<authTables, events, env, started, outbox>>

\* The audit statement of a handler: the row goes to the open transaction.
TxRecordAudit(p, next, failing, audit_type, old_data, new_data) ==
    LET l == local[p]
        subject == unwrap(IF is_some(new_data) THEN new_data ELSE old_data)
    IN /\ IF l.failAt = failing
          THEN Reply(p, DbError, l) /\ UNCHANGED issued
          ELSE /\ issued' = [issued EXCEPT !.audit = @ + 1]
               /\ Goto(p, next,
                       [l EXCEPT !.tx = record_audit(l.tx, subject.id, subject.organizer_id,
                                                     l.account_id, audit_type, old_data,
                                                     new_data, l.request)])
       /\ UNCHANGED <<authTables, eventTables, env, started, outbox>>

(***************************************************************************)
(* POST /events  (create_event)                                            *)
(* statements: 1 SELECT sessions JOIN accounts, 2 BEGIN; INSERT events,    *)
(*             3 INSERT audit_log, 4 COMMIT                                *)
(***************************************************************************)
CreateEvent(p) ==
    /\ Accept(p)
    /\ \E cookie \in Cookies, title \in Titles, f \in FaultChoices(4) :
        LET l == [Idle EXCEPT !.op = "create_event", !.cookie = cookie, !.title = Some(title),
                              !.request = started + 1, !.failAt = f]
            who == current_user_from_headers(cookie)
        IN /\ IF ~who.ok /\ who.err.message # "invalid or expired session"
              THEN Reply(p, into_response(who.err), l)
              ELSE IF f = 1 THEN Reply(p, DbError, l)
              ELSE IF ~who.ok THEN Reply(p, into_response(who.err), l)
              ELSE IF is_none(who.user.organizer_id)
              THEN Reply(p, into_response(Unauthorized("organizer account required")), l)
              ELSE Goto(p, "ce_insert",
                        [l EXCEPT !.cookie = None, !.account_id = who.user.account_id,
                                  !.user = Some(who.user)])
           /\ UNCHANGED <<authTables, eventTables, env, issued, outbox>>

CeInsert(p) ==
    LET l == local[p]
        event == [id |-> issued.events + 1,
                  organizer_id |-> unwrap(unwrap(l.user).organizer_id),
                  title |-> unwrap(l.title), updated_at |-> now]
    IN /\ pc[p] = "ce_insert"
       /\ IF l.failAt = 2
          THEN Reply(p, DbError, l) /\ UNCHANGED issued
          ELSE /\ issued' = [issued EXCEPT !.events = @ + 1]
               /\ Goto(p, "ce_audit",
                       [l EXCEPT !.id = event.id, !.user = None, !.title = None,
                                 !.tx.events_put = {event}])
       /\ UNCHANGED <<authTables, eventTables, env, started, outbox>>

CeAudit(p) ==
    /\ pc[p] = "ce_audit"
    /\ TxRecordAudit(p, "ce_commit", 3, "Create", None,
                     Some(CHOOSE e \in local[p].tx.events_put : TRUE))

CeCommit(p) == pc[p] = "ce_commit" /\ TxCommitEvents(p, 4, Ok(201, "Event"))

(***************************************************************************)
(* PUT /events/{id}  (update_event)                                        *)
(* statements: 1 SELECT sessions JOIN accounts, 2 BEGIN; SELECT events,    *)
(*   3 UPDATE events ... RETURNING, 4 INSERT audit_log, 5 COMMIT           *)
(***************************************************************************)
\* The caller of update_event / delete_event: admins pass, others need an
\* organizer id.
Mutate(p, op, payloads, next) ==
    /\ Accept(p)
    /\ \E cookie \in Cookies, id \in 0..issued.events, title \in payloads,
          f \in FaultChoices(5) :
        LET l == [Idle EXCEPT !.op = op, !.cookie = cookie, !.id = id, !.title = title,
                              !.request = started + 1, !.failAt = f]
            who == current_user_from_headers(cookie)
        IN /\ IF ~who.ok /\ who.err.message # "invalid or expired session"
              THEN Reply(p, into_response(who.err), l)
              ELSE IF f = 1 THEN Reply(p, DbError, l)
              ELSE IF ~who.ok THEN Reply(p, into_response(who.err), l)
              ELSE IF ~is_admin(who.user) /\ is_none(who.user.organizer_id)
              THEN Reply(p, into_response(Unauthorized("organizer account required")), l)
              ELSE IF op = "update_event" /\ is_none(title)
              THEN Reply(p, into_response(Validation("No fields supplied for update")), l)
              ELSE Goto(p, next,
                        [l EXCEPT !.cookie = None, !.account_id = who.user.account_id,
                                  !.user = Some(who.user)])
           /\ UNCHANGED <<authTables, eventTables, env, issued, outbox>>

UpdateEvent(p) == Mutate(p, "update_event", {None} \cup { Some(t) : t \in Titles }, "ue_select")

\* The ownership check both handlers make on the row they selected.
\* The ownership check without the admin case.
OwnsAsOrganizer(user, event) == user.organizer_id = Some(event.organizer_id)

Owns(user, event) == is_admin(user) \/ user.organizer_id = Some(event.organizer_id)

UeSelect(p) ==
    LET l == local[p]
        rows == event_rows(l.id)
    IN /\ pc[p] = "ue_select"
       /\ IF l.failAt = 2 THEN Reply(p, DbError, l)
          ELSE IF rows = {} THEN Reply(p, into_response(Sqlx("RowNotFound")), l)
          ELSE IF ~Owns(unwrap(l.user), CHOOSE e \in rows : TRUE)
          THEN Reply(p, into_response(Unauthorized("cannot update another organizer's event")), l)
          ELSE Goto(p, "ue_update", [l EXCEPT !.user = None, !.existing = rows])
       /\ UNCHANGED <<authTables, eventTables, env, issued, started, outbox>>

\* UPDATE events SET updated_at = NOW(), title_de = $1 WHERE id = $2 RETURNING ...
\* fetch_one: the row as committed when the statement runs, or RowNotFound.
UeUpdate(p) ==
    LET l == local[p]
        rows == event_rows(l.id)
    IN /\ pc[p] = "ue_update"
       /\ ~EventLocked(l.id, p)
       /\ IF l.failAt = 3 THEN Reply(p, DbError, l)
          ELSE IF rows = {} THEN Reply(p, into_response(Sqlx("RowNotFound")), l)
          ELSE Goto(p, "ue_audit",
                    [l EXCEPT !.title = None,
                              !.tx.events_put =
                                  { [e EXCEPT !.title = unwrap(l.title), !.updated_at = now] :
                                      e \in rows }])
       /\ UNCHANGED <<authTables, eventTables, env, issued, started, outbox>>

\* The audit statement of update_event without the snapshot taken before the
\* UPDATE.
UeAuditWithoutOldData(p) ==
    /\ pc[p] = "ue_audit"
    /\ TxRecordAudit(p, "ue_commit", 4, "Update", None,
                     Some(CHOOSE e \in local[p].tx.events_put : TRUE))

UeAudit(p) ==
    /\ pc[p] = "ue_audit"
    /\ TxRecordAudit(p, "ue_commit", 4, "Update", local[p].existing,
                     Some(CHOOSE e \in local[p].tx.events_put : TRUE))

UeCommit(p) == pc[p] = "ue_commit" /\ TxCommitEvents(p, 5, Ok(200, "Event"))

(***************************************************************************)
(* DELETE /events/{id}  (delete_event)                                     *)
(* statements: 1 SELECT sessions JOIN accounts, 2 BEGIN; SELECT events,    *)
(*   3 DELETE FROM events, 4 INSERT audit_log, 5 COMMIT                    *)
(***************************************************************************)
DeleteEvent(p) == Mutate(p, "delete_event", {None}, "de_select")

\* The SELECT of delete_event without the ownership check on the row.
DeSelectOfAnyEvent(p) ==
    LET l == local[p]
        rows == event_rows(l.id)
    IN /\ pc[p] = "de_select"
       /\ IF l.failAt = 2 THEN Reply(p, DbError, l)
          ELSE IF rows = {} THEN Reply(p, into_response(NotFound("Event not found")), l)
          ELSE Goto(p, "de_delete", [l EXCEPT !.user = None, !.existing = rows])
       /\ UNCHANGED <<authTables, eventTables, env, issued, started, outbox>>

DeSelect(p) ==
    LET l == local[p]
        rows == event_rows(l.id)
    IN /\ pc[p] = "de_select"
       /\ IF l.failAt = 2 THEN Reply(p, DbError, l)
          ELSE IF rows = {} THEN Reply(p, into_response(NotFound("Event not found")), l)
          ELSE IF ~Owns(unwrap(l.user), CHOOSE e \in rows : TRUE)
          THEN Reply(p, into_response(Unauthorized("cannot delete another organizer's event")), l)
          ELSE Goto(p, "de_delete", [l EXCEPT !.user = None, !.existing = rows])
       /\ UNCHANGED <<authTables, eventTables, env, issued, started, outbox>>

\* DELETE FROM events WHERE id = $1: the number of rows removed is not looked at.
DeDelete(p) ==
    LET l == local[p]
    IN /\ pc[p] = "de_delete"
       /\ ~EventLocked(l.id, p)
       /\ IF l.failAt = 3 THEN Reply(p, DbError, l)
          ELSE Goto(p, "de_audit",
                    [l EXCEPT !.tx.events_del = { e.id : e \in event_rows(l.id) }])
       /\ UNCHANGED <<authTables, eventTables, env, issued, started, outbox>>

DeAudit(p) ==
    /\ pc[p] = "de_audit"
    /\ TxRecordAudit(p, "de_commit", 4, "Delete", local[p].existing, None)

DeCommit(p) == pc[p] = "de_commit" /\ TxCommitEvents(p, 5, Ok(204, ""))

(***************************************************************************)
(* GET /events/{id}  (get_event)                                           *)
(* statements: 1 SELECT events, 2 SELECT sessions JOIN accounts            *)
(***************************************************************************)
GetEvent(p) ==
    /\ Accept(p)
    /\ \E cookie \in Cookies, id \in 0..issued.events, f \in FaultChoices(2) :
        LET l == [Idle EXCEPT !.op = "get_event", !.cookie = cookie, !.id = id, !.failAt = f]
        IN /\ IF f = 1 THEN Reply(p, DbError, l)
              ELSE IF event_rows(id) = {}
              THEN Reply(p, into_response(NotFound("event not found")), l)
              ELSE Goto(p, "ge_resolve", [l EXCEPT !.existing = event_rows(id)])
           /\ UNCHANGED <<authTables, eventTables, env, issued, outbox>>

\* The session is looked up once the event is in hand; anyone but an admin or
\* the event's organizer is told the event is not there.
GeResolve(p) ==
    LET l == local[p]
        who == current_user_from_headers(l.cookie)
    IN /\ pc[p] = "ge_resolve"
       /\ IF ~who.ok /\ who.err.message # "invalid or expired session"
          THEN Reply(p, into_response(who.err), l)
          ELSE IF l.failAt = 2 THEN Reply(p, DbError, l)
          ELSE IF ~who.ok THEN Reply(p, into_response(who.err), l)
          ELSE IF Owns(who.user, CHOOSE e \in l.existing : TRUE)
          THEN Reply(p, Ok(200, "Event"), [l EXCEPT !.account_id = who.user.account_id])
          ELSE Reply(p, into_response(NotFound("event not found")),
                     [l EXCEPT !.account_id = who.user.account_id])
       /\ UNCHANGED <<authTables, eventTables, env, issued, started, outbox>>

(***************************************************************************)
(* GET /audit-logs  (list_audit_logs)                                      *)
(* statements: 1 SELECT sessions JOIN accounts, 2 SELECT audit_log         *)
(***************************************************************************)
ListAuditLogs(p) ==
    /\ Accept(p)
    /\ \E cookie \in Cookies, requested \in {None} \cup { Some(n) : n \in 1..issued.organizers },
          f \in FaultChoices(2) :
        LET l == [Idle EXCEPT !.op = "list_audit_logs", !.cookie = cookie,
                              !.id = IF is_some(requested) THEN unwrap(requested) ELSE 0,
                              !.failAt = f]
            who == current_user_from_headers(cookie)
        IN /\ IF ~who.ok /\ who.err.message # "invalid or expired session"
              THEN Reply(p, into_response(who.err), l)
              ELSE IF f = 1 THEN Reply(p, DbError, l)
              ELSE IF ~who.ok THEN Reply(p, into_response(who.err), l)
              ELSE IF ~is_admin(who.user) /\ is_none(who.user.organizer_id)
              THEN Reply(p, into_response(Unauthorized("missing organizer context")), l)
              ELSE IF ~is_admin(who.user) /\ is_some(requested)
                        /\ requested # who.user.organizer_id
              THEN Reply(p, into_response(Unauthorized("cannot view other organizers' audit logs")), l)
              ELSE Goto(p, "lal_select",
                        [l EXCEPT !.cookie = None, !.account_id = who.user.account_id,
                                  !.id = IF is_admin(who.user) \/ is_some(requested)
                                         THEN @ ELSE unwrap(who.user.organizer_id)])
           /\ UNCHANGED <<authTables, eventTables, env, issued, outbox>>

\* SELECT ... FROM audit_log [WHERE organizer_id = $1] ORDER BY at DESC
LalSelect(p) ==
    LET l == local[p]
    IN /\ pc[p] = "lal_select"
       /\ IF l.failAt = 2 THEN Reply(p, DbError, l)
          ELSE Reply(p, Ok(200, "AuditLogEntries"), l)
       /\ UNCHANGED <<authTables, eventTables, env, issued, started, outbox>>

(***************************************************************************)
(* The organizers table is kept as the organizer_id of the accounts: an    *)
(* organizer row is inserted with its account in one transaction           *)
(* (create_organizer), and no operation removes an account.                *)
(***************************************************************************)
organizer_rows(id) == { a.organizer_id : a \in { a \in accounts : a.organizer_id = Some(id) } }

\* accounts.organizer_id and events.organizer_id refer to organizers(id).
OrganizerReferenced(id) ==
    \/ \E a \in accounts : a.organizer_id = Some(id)
    \/ \E e \in events : e.organizer_id = id

(***************************************************************************)
(* PUT /organizers/{id}  (update_organizer)                                *)
(* statements: 1 SELECT sessions JOIN accounts, 2 UPDATE organizers        *)
(***************************************************************************)
UpdateOrganizer(p) ==
    /\ Accept(p)
    /\ \E cookie \in Cookies, id \in 0..issued.organizers, has_updates \in BOOLEAN,
          f \in FaultChoices(2) :
        LET l == [Idle EXCEPT !.op = "update_organizer", !.cookie = cookie, !.id = id,
                              !.failAt = f]
            who == current_user_from_headers(cookie)
        IN /\ IF ~who.ok /\ who.err.message # "invalid or expired session"
              THEN Reply(p, into_response(who.err), l)
              ELSE IF f = 1 THEN Reply(p, DbError, l)
              ELSE IF ~who.ok THEN Reply(p, into_response(who.err), l)
              ELSE IF who.user.organizer_id # Some(id) /\ ~is_admin(who.user)
              THEN Reply(p, into_response(Unauthorized("cannot update another organizer")), l)
              ELSE IF ~has_updates
              THEN Reply(p, into_response(Validation("No fields supplied for update")), l)
              ELSE Goto(p, "uo_update",
                        [l EXCEPT !.cookie = None, !.account_id = who.user.account_id])
           /\ UNCHANGED <<authTables, eventTables, env, issued, outbox>>

\* UPDATE organizers SET updated_at = NOW(), ... WHERE id = $n RETURNING ...
\* fetch_one; the columns it writes are not part of the model.
UoUpdate(p) ==
    LET l == local[p]
    IN /\ pc[p] = "uo_update"
       /\ IF l.failAt = 2 THEN Reply(p, DbError, l)
          ELSE IF organizer_rows(l.id) = {}
          THEN Reply(p, into_response(Sqlx("RowNotFound")), l)
          ELSE IF is_some(cache) THEN Goto(p, "invalidate", l)
          ELSE Reply(p, Ok(200, "Organizer"), l)
       /\ UNCHANGED <<authTables, eventTables, env, issued, started, outbox>>

(***************************************************************************)
(* DELETE /organizers/{id}  (delete_organizer)                             *)
(* statements: 1 SELECT sessions JOIN accounts, 2 DELETE FROM organizers   *)
(***************************************************************************)
DeleteOrganizer(p) ==
    /\ Accept(p)
    /\ \E cookie \in Cookies, id \in 0..issued.organizers, f \in FaultChoices(2) :
        LET l == [Idle EXCEPT !.op = "delete_organizer", !.cookie = cookie, !.id = id,
                              !.failAt = f]
            who == current_user_from_headers(cookie)
        IN /\ IF ~who.ok /\ who.err.message # "invalid or expired session"
              THEN Reply(p, into_response(who.err), l)
              ELSE IF f = 1 THEN Reply(p, DbError, l)
              ELSE IF ~who.ok THEN Reply(p, into_response(who.err), l)
              ELSE IF who.user.organizer_id # Some(id) /\ ~is_admin(who.user)
              THEN Reply(p, into_response(Unauthorized("cannot delete another organizer")), l)
              ELSE Goto(p, "do_delete",
                        [l EXCEPT !.cookie = None, !.account_id = who.user.account_id])
           /\ UNCHANGED <<authTables, eventTables, env, issued, outbox>>

\* DELETE FROM organizers WHERE id = $1: no row is NotFound; a row that an
\* account or an event still refers to is kept by the foreign key (23503).
DoDelete(p) ==
    LET l == local[p]
    IN /\ pc[p] = "do_delete"
       /\ IF l.failAt = 2 THEN Reply(p, DbError, l)
          ELSE IF organizer_rows(l.id) = {}
          THEN Reply(p, into_response(NotFound("Organizer not found")), l)
          ELSE IF OrganizerReferenced(l.id)
          THEN Reply(p, into_response(Sqlx("23503")), l)
          ELSE IF is_some(cache) THEN Goto(p, "invalidate", l)
          ELSE Reply(p, Ok(204, ""), l)
       /\ UNCHANGED <<authTables, eventTables, env, issued, started, outbox>>

(***************************************************************************)
(* The response cache (cache.rs).  A key is kept as its colon-separated    *)
(* parts; an entry is live until CACHE_TTL after it was set.  Redis        *)
(* answers every command; with no cache configured the handlers skip it.   *)
(***************************************************************************)
CACHE_TTL == 1          \* CACHE_TTL_SECONDS, 60 by default

\* connection.get(key): the payload of the live entry, if there is one.
get_json(key) ==
    IF is_none(cache) THEN None
    ELSE { e.value : e \in { e \in unwrap(cache) : e.key = key /\ e.expires_at > now } }

\* connection.set_ex(key, payload, ttl)
set_json(key, value) ==
    Some({ e \in unwrap(cache) : e.key # key }
            \cup {[key |-> key, value |-> value, expires_at |-> now + CACHE_TTL]})

\* SCAN MATCH prefix* and DEL of the keys it finds.
purge_prefix(entries, prefix) ==
    { e \in entries : ~(Len(e.key) >= Len(prefix) /\ SubSeq(e.key, 1, Len(prefix)) = prefix) }

\* invalidate_public_organizer_caches(&state).await, the last call of
\* create_organizer, update_organizer and delete_organizer, and their return.
InvalidatePublicOrganizerCaches(p) ==
    LET l == local[p]
        purged == purge_prefix(purge_prefix(purge_prefix(unwrap(cache),
                      <<"public", "organizers">>), <<"public", "events">>), <<"ical">>)
    IN /\ pc[p] = "invalidate"
       /\ cache' = Some(purged)
       /\ Reply(p, IF l.op = "create_organizer" THEN Ok(201, "SetupTokenResponse")
                   ELSE IF l.op = "update_organizer" THEN Ok(200, "Organizer")
                   ELSE Ok(204, ""), l)
       /\ UNCHANGED <<authTables, eventTables, now, faultsOn, issued, started, outbox>>

(***************************************************************************)
(* GET /public/organizers  (list_public_organizers)                        *)
(* statements: 1 SELECT organizers                                         *)
(***************************************************************************)
PublicOrganizersKey == <<"public", "organizers", "list">>

\* SELECT o.id, ... FROM organizers o: a row is shown as its id.
PublicOrganizers == { unwrap(a.organizer_id) : a \in { a \in accounts : is_some(a.organizer_id) } }

\* A cached list is the answer.
ListPublicOrganizers(p) ==
    /\ Accept(p)
    /\ \E f \in FaultChoices(1) :
        LET l == [Idle EXCEPT !.op = "list_public_organizers", !.failAt = f]
            cached == get_json(PublicOrganizersKey)
        IN IF is_some(cached)
           THEN Reply(p, Ok(200, "PublicOrganizers"), [l EXCEPT !.rows = unwrap(cached)])
           ELSE Goto(p, "lpo_select", l)
    /\ UNCHANGED <<authTables, eventTables, env, issued, outbox>>

LpoSelect(p) ==
    LET l == local[p]
    IN /\ pc[p] = "lpo_select"
       /\ IF l.failAt = 1 THEN Reply(p, DbError, l)
          ELSE IF is_some(cache) THEN Goto(p, "lpo_set", [l EXCEPT !.rows = PublicOrganizers])
          ELSE Reply(p, Ok(200, "PublicOrganizers"), [l EXCEPT !.rows = PublicOrganizers])
       /\ UNCHANGED <<authTables, eventTables, env, issued, started, outbox>>

\* cache.set_json(cache_key, &public_organizers) and the return.
LpoSet(p) ==
    LET l == local[p]
    IN /\ pc[p] = "lpo_set"
       /\ cache' = set_json(PublicOrganizersKey, l.rows)
       /\ Reply(p, Ok(200, "PublicOrganizers"), l)
       /\ UNCHANGED <<authTables, eventTables, now, faultsOn, issued, started, outbox>>

(***************************************************************************)
(* Time passes.                                                            *)
(***************************************************************************)
Tick ==
    /\ started < MaxEvents
    /\ started' = started + 1
    /\ now' = now + 1
    /\ UNCHANGED <<authTables, eventTables, faultsOn, issued, pc, local, resp, outbox, cache>>

(***************************************************************************)
(* The database when the server starts serving requests.  It holds the     *)
(* seeded administrator, logged in, and one organizer that was invited:    *)
(* the organizer has either not yet completed the invitation or has        *)
(* completed it and is logged in; the administrator may have asked for a   *)
(* password reset.  Every seeded lifetime ends at time 1.                  *)
(***************************************************************************)
SeedAdmin ==
    [id |-> 1, account_type |-> "Admin", organizer_id |-> None,
     email |-> Some("admin@uni"),
     password_hash |-> Some(hash_password(PwStrongA, "s1")),
     setup_token |-> None, setup_token_expires_at |-> None]

SeedOrganizer(initialized) ==
    [id |-> 2, account_type |-> "Organizer", organizer_id |-> Some(1),
     email |-> Some("club@uni"),
     password_hash |-> IF initialized THEN Some(hash_password(PwStrongB, "s1")) ELSE None,
     setup_token |-> IF initialized THEN None ELSE Some(SetupToken(1)),
     setup_token_expires_at |-> IF initialized THEN None ELSE Some(1)]

InitCommon ==
    \E initialized \in BOOLEAN, asked \in BOOLEAN :
        /\ accounts = {SeedAdmin, SeedOrganizer(initialized)}
        /\ sessions = {[id |-> 1, account_id |-> 1, expires_at |-> 1]}
                        \cup IF initialized
                             THEN {[id |-> 2, account_id |-> 2, expires_at |-> 1]}
                             ELSE {}
        /\ password_reset_tokens =
              IF asked
              THEN {[id |-> 1, account_id |-> 1, token |-> 1, expires_at |-> 1, used_at |-> None]}
              ELSE {}
        /\ issued = [sessions |-> IF initialized THEN 2 ELSE 1, setup_tokens |-> 1,
                     reset_tokens |-> IF asked THEN 1 ELSE 0,
                     accounts |-> 2, organizers |-> 1, events |-> 0, audit |-> 0]
        /\ events = {}
        /\ audit_log = {}
        /\ now = 0
        /\ started = 0
        /\ pc = [p \in Procs |-> "idle"]
        /\ local = [p \in Procs |-> Idle]
        /\ resp = [p \in Procs |-> NoResponse]
        /\ outbox = {}

Init == InitCommon /\ faultsOn = FALSE /\ cache = None

Next ==
    \/ \E p \in Procs : Login(p)
    \/ \E p \in Procs : LoginInsert(p)
    \/ \E p \in Procs : LookupSetupToken(p)
    \/ \E p \in Procs : InitAccount(p)
    \/ \E p \in Procs : InitUpdate(p)
    \/ \E p \in Procs : InitInsert(p)
    \/ \E p \in Procs : Logout(p)
    \/ \E p \in Procs : Me(p)
    \/ \E p \in Procs : ChangePassword(p)
    \/ \E p \in Procs : CpSelect(p)
    \/ \E p \in Procs : CpUpdate(p)
    \/ \E p \in Procs : CpDelete(p)
    \/ \E p \in Procs : CpCommit(p)
    \/ \E p \in Procs : RequestPasswordReset(p)
    \/ \E p \in Procs : RprDelete(p)
    \/ \E p \in Procs : RprInsert(p)
    \/ \E p \in Procs : ResetPassword(p)
    \/ \E p \in Procs : RpUpdate(p)
    \/ \E p \in Procs : RpMark(p)
    \/ \E p \in Procs : RpDelete(p)
    \/ \E p \in Procs : RpCommit(p)
    \/ \E p \in Procs : GenerateSetupToken(p)
    \/ \E p \in Procs : GstUpdate(p)
    \/ \E p \in Procs : CreateOrganizer(p)
    \/ \E p \in Procs : InviteAdmin(p)
    \/ \E p \in Procs : InviteInsert(p)
    \/ \E p \in Procs : InviteCommit(p)
    \/ Tick

Spec == Init /\ [][Next]_vars


InitFaulty == InitCommon /\ faultsOn = TRUE /\ cache = None

\* The same handlers against a database that may fail any one statement of a
\* request and an SMTP relay that may refuse a message.
SpecFaulty == InitFaulty /\ [][Next]_vars

(***************************************************************************)
(* The event routes, served from a database that holds the administrator   *)
(* (logged in), the initialized organizers 1 (logged in) and 2 (logged     *)
(* out), and one event of each organizer with its Create entry.  Statement *)
(* faults are on or off for the whole behaviour.                           *)
(***************************************************************************)
OtherOrganizer ==
    [id |-> 3, account_type |-> "Organizer", organizer_id |-> Some(2),
     email |-> Some("other@uni"),
     password_hash |-> Some(hash_password(PwStrongB, "s1")),
     setup_token |-> None, setup_token_expires_at |-> None]

\* Organizer n's account is account n + 1.
SeedEvent(n) == [id |-> n, organizer_id |-> n, title |-> "t1", updated_at |-> 0]

SeedAudit(n) ==
    [id |-> n, event_id |-> n, organizer_id |-> n, user_id |-> n + 1, type |-> "Create",
     old_data |-> None, new_data |-> Some(SeedEvent(n)), request |-> 0]

InitEvents ==
    /\ accounts = {SeedAdmin, SeedOrganizer(TRUE), OtherOrganizer}
    /\ sessions = {[id |-> 1, account_id |-> 1, expires_at |-> 1],
                   [id |-> 2, account_id |-> 2, expires_at |-> 1]}
    /\ password_reset_tokens = {}
    /\ issued = [sessions |-> 2, setup_tokens |-> 1, reset_tokens |-> 0,
                 accounts |-> 3, organizers |-> 2, events |-> 2, audit |-> 2]
    /\ events = {SeedEvent(1), SeedEvent(2)}
    /\ audit_log = {SeedAudit(1), SeedAudit(2)}
    /\ now = 0
    /\ started = 0
    /\ faultsOn \in BOOLEAN
    /\ pc = [p \in Procs |-> "idle"]
    /\ local = [p \in Procs |-> Idle]
    /\ resp = [p \in Procs |-> NoResponse]
    /\ outbox = {}
    /\ cache = None

NextEvents ==
    \/ \E p \in Procs : CreateEvent(p)
    \/ \E p \in Procs : CeInsert(p)
    \/ \E p \in Procs : CeAudit(p)
    \/ \E p \in Procs : CeCommit(p)
    \/ \E p \in Procs : UpdateEvent(p)
    \/ \E p \in Procs : UeSelect(p)
    \/ \E p \in Procs : UeUpdate(p)
    \/ \E p \in Procs : UeAudit(p)
    \/ \E p \in Procs : UeCommit(p)
    \/ \E p \in Procs : DeleteEvent(p)
    \/ \E p \in Procs : DeSelect(p)
    \/ \E p \in Procs : DeDelete(p)
    \/ \E p \in Procs : DeAudit(p)
    \/ \E p \in Procs : DeCommit(p)
    \/ Tick

SpecEvents == InitEvents /\ [][NextEvents]_vars

(***************************************************************************)
(* The handlers that send e-mail (invitation, welcome, password reset),    *)
(* against a database that may fail a statement and an SMTP relay that may *)
(* refuse a message.                                                       *)
(***************************************************************************)
NextMail ==
    \/ \E p \in Procs : CreateOrganizer(p)
    \/ \E p \in Procs : InviteAdmin(p)
    \/ \E p \in Procs : InviteInsert(p)
    \/ \E p \in Procs : InviteCommit(p)
    \/ \E p \in Procs : InitAccount(p)
    \/ \E p \in Procs : InitUpdate(p)
    \/ \E p \in Procs : InitInsert(p)
    \/ \E p \in Procs : RequestPasswordReset(p)
    \/ \E p \in Procs : RprDelete(p)
    \/ \E p \in Procs : RprInsert(p)
    \/ Tick

SpecMail == InitFaulty /\ [][NextMail]_vars

(***************************************************************************)
(* The session-protected resource routes together (routes/events.rs,       *)
(* routes/organizers.rs, routes/audit.rs), on a database that fails no     *)
(* statement.                                                              *)
(***************************************************************************)
InitResources == InitEvents /\ faultsOn = FALSE

NextResources ==
    \/ \E p \in Procs : CreateEvent(p)
    \/ \E p \in Procs : CeInsert(p)
    \/ \E p \in Procs : CeAudit(p)
    \/ \E p \in Procs : CeCommit(p)
    \/ \E p \in Procs : UpdateEvent(p)
    \/ \E p \in Procs : UeSelect(p)
    \/ \E p \in Procs : UeUpdate(p)
    \/ \E p \in Procs : UeAudit(p)
    \/ \E p \in Procs : UeCommit(p)
    \/ \E p \in Procs : DeleteEvent(p)
    \/ \E p \in Procs : DeSelect(p)
    \/ \E p \in Procs : DeDelete(p)
    \/ \E p \in Procs : DeAudit(p)
    \/ \E p \in Procs : DeCommit(p)
    \/ \E p \in Procs : GetEvent(p)
    \/ \E p \in Procs : GeResolve(p)
    \/ \E p \in Procs : ListAuditLogs(p)
    \/ \E p \in Procs : LalSelect(p)
    \/ \E p \in Procs : UpdateOrganizer(p)
    \/ \E p \in Procs : UoUpdate(p)
    \/ \E p \in Procs : DeleteOrganizer(p)
    \/ \E p \in Procs : DoDelete(p)
    \/ \E p \in Procs : GenerateSetupToken(p)
    \/ \E p \in Procs : GstUpdate(p)
    \/ Tick

SpecResources == InitResources /\ [][NextResources]_vars

(***************************************************************************)
(* The routes that create, resolve and delete sessions, against a database *)
(* that, for the whole behaviour, either works or may fail one statement   *)
(* of a request.                                                           *)
(***************************************************************************)
InitSessions == InitCommon /\ faultsOn \in BOOLEAN /\ cache = None

NextSessions ==
    \/ \E p \in Procs : Login(p)
    \/ \E p \in Procs : LoginInsert(p)
    \/ \E p \in Procs : InitAccount(p)
    \/ \E p \in Procs : InitUpdate(p)
    \/ \E p \in Procs : InitInsert(p)
    \/ \E p \in Procs : Logout(p)
    \/ \E p \in Procs : Me(p)
    \/ \E p \in Procs : ChangePassword(p)
    \/ \E p \in Procs : CpSelect(p)
    \/ \E p \in Procs : CpUpdate(p)
    \/ \E p \in Procs : CpDelete(p)
    \/ \E p \in Procs : CpCommit(p)
    \/ Tick

SpecSessions == InitSessions /\ [][NextSessions]_vars

(***************************************************************************)
(* The three routes that write a password, served concurrently.            *)
(***************************************************************************)
NextPasswords ==
    \/ \E p \in Procs : InitAccount(p)
    \/ \E p \in Procs : InitUpdate(p)
    \/ \E p \in Procs : InitInsert(p)
    \/ \E p \in Procs : ChangePassword(p)
    \/ \E p \in Procs : CpSelect(p)
    \/ \E p \in Procs : CpUpdate(p)
    \/ \E p \in Procs : CpDelete(p)
    \/ \E p \in Procs : CpCommit(p)
    \/ \E p \in Procs : ResetPassword(p)
    \/ \E p \in Procs : RpUpdate(p)
    \/ \E p \in Procs : RpMark(p)
    \/ \E p \in Procs : RpDelete(p)
    \/ \E p \in Procs : RpCommit(p)
    \/ Tick

SpecPasswords == Init /\ [][NextPasswords]_vars

(***************************************************************************)
(* The organizer mutations and the public organizer list with the cache    *)
(* configured and empty at start, over a database that works.              *)
(***************************************************************************)
InitCache == InitCommon /\ faultsOn = FALSE /\ cache = Some({})

NextCache ==
    \/ \E p \in Procs : CreateOrganizer(p)
    \/ \E p \in Procs : InviteInsert(p)
    \/ \E p \in Procs : InviteCommit(p)
    \/ \E p \in Procs : UpdateOrganizer(p)
    \/ \E p \in Procs : UoUpdate(p)
    \/ \E p \in Procs : DeleteOrganizer(p)
    \/ \E p \in Procs : DoDelete(p)
    \/ \E p \in Procs : InvalidatePublicOrganizerCaches(p)
    \/ \E p \in Procs : ListPublicOrganizers(p)
    \/ \E p \in Procs : LpoSelect(p)
    \/ \E p \in Procs : LpoSet(p)
    \/ Tick

SpecCache == InitCache /\ [][NextCache]_vars

(***************************************************************************)
(* Login on its own, against a database in which the invited organizer is  *)
(* pending or has a password_hash that is no PHC string, and which either  *)
(* works or may fail one statement of a request.                           *)
(***************************************************************************)
InitLogin ==
    \E initialized \in BOOLEAN :
        /\ accounts = {SeedAdmin,
                       IF initialized
                       THEN [SeedOrganizer(TRUE) EXCEPT !.password_hash = Some(CorruptHash)]
                       ELSE SeedOrganizer(FALSE)}
        /\ sessions = {[id |-> 1, account_id |-> 1, expires_at |-> 1]}
        /\ password_reset_tokens = {}
        /\ issued = [sessions |-> 1, setup_tokens |-> 1, reset_tokens |-> 0,
                     accounts |-> 2, organizers |-> 1, events |-> 0, audit |-> 0]
        /\ events = {}
        /\ audit_log = {}
        /\ now = 0
        /\ started = 0
        /\ faultsOn \in BOOLEAN
        /\ pc = [p \in Procs |-> "idle"]
        /\ local = [p \in Procs |-> Idle]
        /\ resp = [p \in Procs |-> NoResponse]
        /\ outbox = {}
        /\ cache = None

NextLogin ==
    \/ \E p \in Procs : Login(p)
    \/ \E p \in Procs : LoginInsert(p)
    \/ Tick

SpecLogin == InitLogin /\ [][NextLogin]_vars

(***************************************************************************)
(* The password policy on its own: a task is handed a candidate password   *)
(* and evaluates ensure_password_requirements on it.  The candidates are   *)
(* an optional uppercase letter, digit and symbol, an optional word, and a *)
(* filling character up to a length in characters.                         *)
(***************************************************************************)
Pad(s, c, n) == IF Len(s) >= n THEN s ELSE s \o Rep(c, n - Len(s))

PolicyLengths == {12, 19, 20, 24}

PolicyInputs ==
    { Pad(upper \o digit \o symbol \o word, fill, n) :
        upper \in {<<>>, <<"A">>},
        digit \in {<<>>, <<"1">>},
        symbol \in {<<>>, <<"!">>, <<"é">>},
        word \in {<<>>, <<"b">>, <<"p", "a", "s", "s", "w", "o", "r", "d">>,
                  <<"P", "a", "s", "s", "W", "o", "r", "d">>},
        fill \in {"a", "A", "é"},
        n \in PolicyLengths }

InitPolicy ==
    /\ InitCommon
    /\ faultsOn = FALSE
    /\ cache = None

\* The validation the three password-writing handlers start with, applied to
\* one candidate per behaviour; the result is rendered as they render it.
EnsurePasswordRequirements(p) ==
    /\ Unused(p)
    /\ started = 0
    /\ started' = 1
    /\ \E password \in PolicyInputs :
          LET result == ensure_password_requirements(password) IN
          /\ local' = [local EXCEPT ![p] = [Idle EXCEPT !.op = "ensure_password_requirements",
                                                        !.password = password]]
          /\ resp' = [resp EXCEPT ![p] = IF is_none(result) THEN Ok(200, "")
                                         ELSE into_response(unwrap(result))]
    /\ UNCHANGED <<accounts, sessions, password_reset_tokens, events, audit_log, now,
                   issued, faultsOn, pc, outbox, cache>>

NextPolicy == \E p \in Procs : EnsurePasswordRequirements(p)

SpecPolicy == InitPolicy /\ [][NextPolicy]_vars

(***************************************************************************)
(* The error mapping on its own: a handler fails with an AppError and the  *)
(* error is turned into the response.                                      *)
(***************************************************************************)
ErrorMessages == {"invalid setup token", "missing session", "event not found"}

\* SQLSTATE 40001 is a serialization failure; "io" stands for a failure that
\* is no database error (connection lost, pool timed out).
SqlxCodes == {"RowNotFound", "23505", "23503", "P0001", "40001", "io"}

ErrorInputs ==
    { [variant |-> v, message |-> m, code |-> "-"] :
        v \in {"NotFound", "Validation", "Unauthorized", "Email", "Internal"},
        m \in ErrorMessages }
    \cup { Sqlx(code) : code \in SqlxCodes }
    \cup { [variant |-> "Serde", message |-> "-", code |-> "-"] }

InitErrors ==
    /\ InitCommon
    /\ faultsOn = FALSE
    /\ cache = None

\* One failing handler per behaviour; the error stays known next to the response.
IntoResponse(p) ==
    /\ Unused(p)
    /\ started = 0
    /\ started' = 1
    /\ \E error \in ErrorInputs :
          /\ local' = [local EXCEPT ![p] = [error |-> error] @@ [Idle EXCEPT !.op = "into_response"]]
          /\ resp' = [resp EXCEPT ![p] = into_response(error)]
    /\ UNCHANGED <<accounts, sessions, password_reset_tokens, events, audit_log, now,
                   issued, faultsOn, pc, outbox, cache>>

NextErrors == \E p \in Procs : IntoResponse(p)

SpecErrors == InitErrors /\ [][NextErrors]_vars

(***************************************************************************)
(* Properties.                                                             *)
(***************************************************************************)
\* A request of kind op that task p has answered.
Answered(p, op) == pc[p] = "idle" /\ local[p].op = op

\* C1: of the init_account requests that carry the same setup token, exactly one
\* succeeds (at most one is answered 200) and exactly one session is created, so
\* no two of them are both answered 200 with a session cookie.
C1_OneInitPerSetupToken ==
    \A p, q \in Procs :
        ( /\ p # q
          /\ Answered(p, "init_account") /\ Answered(q, "init_account")
          /\ replace_space_by_plus(local[p].token) = replace_space_by_plus(local[q].token) )
        => ~(resp[p].status = 200 /\ resp[q].status = 200)

\* C2: of the reset_password requests that carry the same reset token, at most
\* one succeeds in replacing the password (is answered 204).
C2_OneResetPerToken ==
    \A p, q \in Procs :
        ( /\ p # q
          /\ Answered(p, "reset_password") /\ Answered(q, "reset_password")
          /\ local[p].reset_token = local[q].reset_token )
        => ~(resp[p].status = 204 /\ resp[q].status = 204)

\* A reset_password with token t has committed: a task was answered 204 for it,
\* or the token's row carries used_at.
Consumed(t) ==
    \/ \E q \in Procs : Answered(q, "reset_password") /\ local[q].reset_token = t
                        /\ resp[q].status = 204
    \/ \E r \in password_reset_tokens : r.token = t /\ is_some(r.used_at)

\* Task p takes a new request of kind op in this step.
Starts(p, op) ==
    /\ pc[p] = "idle"
    /\ started' = started + 1 /\ now' = now
    /\ local'[p].op = op
    /\ <<pc[p], local[p], resp[p]>>' # <<pc[p], local[p], resp[p]>>

\* C3: once a reset_password with token t has committed, a reset_password with t
\* that starts afterwards is answered 400 (Validation) at once and changes neither
\* the accounts, nor the sessions, nor the reset tokens.
C3_ConsumedTokenRejected ==
    [][\A p \in Procs :
          (Starts(p, "reset_password") /\ Consumed(local'[p].reset_token))
          => /\ pc'[p] = "idle"
             /\ resp'[p] = into_response(Validation("Invalid or expired reset token"))
             /\ UNCHANGED authTables]_vars

\* Reached: token t was consumed by one request and a later request with t was
\* refused as invalid.
C3_Witness ==
    \E p, q \in Procs :
        /\ p # q
        /\ Answered(q, "reset_password") /\ resp[q].status = 204
        /\ Answered(p, "reset_password") /\ local[p].reset_token = local[q].reset_token
        /\ resp[p] = into_response(Validation("Invalid or expired reset token"))
        /\ \E r \in password_reset_tokens : r.token = local[q].reset_token /\ is_some(r.used_at)

\* Task p commits the transaction of change_password or reset_password.
CommitsPasswordChange(p) ==
    /\ pc[p] \in {"cp_commit", "rp_commit"}
    /\ pc'[p] = "idle"
    /\ resp'[p].status = 204

\* C4: when change_password or reset_password commits for an account, no session
\* of that account issued before the commit resolves any more: none of the
\* account's session rows is left.
C4_CommitRevokesSessions ==
    [][\A p \in Procs :
          CommitsPasswordChange(p)
          => ~\E s \in sessions : s.account_id = local[p].account_id /\ s \in sessions']_vars

\* C5: every account with password_hash set has setup_token and its expiry unset.
C5_InitializedHasNoSetupToken ==
    \A a \in accounts :
        is_some(a.password_hash)
        => is_none(a.setup_token) /\ is_none(a.setup_token_expires_at)

\* C6: two request_password_reset runs whose account lookup went through, one
\* for the email of an initialized account and one for an email without such an
\* account, are answered with the same status and body.
C6_ResetRequestHidesExistence ==
    \A p, q \in Procs :
        ( /\ Answered(p, "request_password_reset") /\ Answered(q, "request_password_reset")
          /\ local[p].account_id # 0
          /\ local[q].account_id = 0 /\ local[q].failAt # 1 )
        => resp[p] = resp[q]

\* C7: request_password_reset is answered 204 whatever happens inside: no failed
\* lookup, deletion, insertion or delivery changes the response.
C7_ResetRequestAlways204 ==
    \A p \in Procs : Answered(p, "request_password_reset") => resp[p] = Ok(204, "")

\* The reset tokens of an account that reset_password would still accept.
UsableTokens(account_id) ==
    { t \in password_reset_tokens :
        t.account_id = account_id /\ is_none(t.used_at) /\ t.expires_at > now }

\* C8: each account has at most one unused, unexpired reset token.
C8_OneUsableTokenPerAccount ==
    \A a \in accounts : Cardinality(UsableTokens(a.id)) <= 1

\* C9: the state reset_password commits shows all three effects together: the
\* account carries the new password_hash, the token the request presented is
\* marked used, and no session of the account is left.
C9_ResetEffectsTogether ==
    [][\A p \in Procs :
          (pc[p] = "rp_commit" /\ pc'[p] = "idle" /\ resp'[p].status = 204)
          => /\ \E a \in accounts' : a.id = local[p].account_id
                                     /\ a.password_hash = local[p].hash
             /\ \E t \in password_reset_tokens' : t.id = local[p].token_id
                                                  /\ is_some(t.used_at)
             /\ ~\E s \in sessions' : s.account_id = local[p].account_id]_vars

EventOps == {"create_event", "update_event", "delete_event"}

\* The audit rows written for request n.
AuditRowsOf(n) == { r \in audit_log : r.request = n }

AuditTypeOf(op) ==
    CASE op = "create_event" -> "Create"
      [] op = "update_event" -> "Update"
      [] op = "delete_event" -> "Delete"

\* C10: a create_event, update_event or delete_event request whose transaction
\* committed (answered 201, 200 or 204) has exactly one audit row, of its type;
\* a request that is still running, was rejected, failed after the event write
\* or failed to commit has none; and no request ever has two.
C10_AuditRowsFollowCommit ==
    /\ \A p \in Procs :
          local[p].op \in EventOps =>
              IF pc[p] = "idle" /\ resp[p].status \in {200, 201, 204}
              THEN /\ Cardinality(AuditRowsOf(local[p].request)) = 1
                   /\ \A r \in AuditRowsOf(local[p].request) :
                          r.type = AuditTypeOf(local[p].op)
              ELSE AuditRowsOf(local[p].request) = {}
    /\ \A n \in 1..started : Cardinality(AuditRowsOf(n)) <= 1

\* Reached: one request committed and has its audit row while another failed at
\* its commit, after its event write and audit statement, and has none.
C10_Witness ==
    \E p, q \in Procs :
        /\ p # q
        /\ local[p].op \in EventOps /\ pc[p] = "idle" /\ resp[p].status \in {200, 201, 204}
        /\ Cardinality(AuditRowsOf(local[p].request)) = 1
        /\ local[q].op \in EventOps /\ pc[q] = "idle" /\ resp[q] = DbError
        /\ local[q].failAt = (IF local[q].op = "create_event" THEN 4 ELSE 5)
        /\ AuditRowsOf(local[q].request) = {}

(***************************************************************************)
(* C11: every audit entry of every reachable state has the nullability of  *)
(* its type: a Create entry has no old_data and has new_data, a Delete     *)
(* entry has old_data and no new_data, an Update entry has both.           *)
(***************************************************************************)
C11_AuditNullability ==
    \A r \in audit_log :
        /\ r.type = "Create" => is_none(r.old_data) /\ is_some(r.new_data)
        /\ r.type = "Delete" => is_some(r.old_data) /\ is_none(r.new_data)
        /\ r.type = "Update" => is_some(r.old_data) /\ is_some(r.new_data)

\* Next to the entries of the two creations, an update and a deletion have
\* committed theirs.
C11_Witness ==
    \A t \in {"Create", "Update", "Delete"} :
        \E r \in audit_log : r.type = t /\ (t # "Create" => r.request # 0)

LiveSessions(cookie) ==
    { s \in sessions : cookie = Some(s.id) /\ s.id > 0 /\ ~(s.expires_at <= now) }

ResolveSound ==
    \A cookie \in Cookies :
        LET who == current_user_from_headers(cookie)
        IN IF LiveSessions(cookie) = {}
           THEN ~who.ok /\ who.err.variant = "Unauthorized" /\ status_code(who.err) = 401
           ELSE /\ who.ok
                /\ \E s \in LiveSessions(cookie), a \in accounts :
                      /\ a.id = s.account_id
                      /\ who.user = [account_id |-> a.id, account_type |-> a.account_type,
                                     organizer_id |-> a.organizer_id]

MeSound ==
    \A p \in Procs :
        Starts(p, "me") =>
            IF LiveSessions(local'[p].cookie) = {}
            THEN resp'[p].status = 401
            ELSE /\ resp'[p].status = 200
                 /\ \E s \in LiveSessions(local'[p].cookie) : local'[p].account_id = s.account_id

C13_ResolveNeedsLiveSession == []ResolveSound /\ [][MeSound]_vars

\* /auth/me was refused for the cookie of a session that is stored and expires
\* in this instant (expires_at = now).
C13_Witness ==
    \E p \in Procs :
        /\ Answered(p, "me") /\ resp[p].status = 401
        /\ \E s \in sessions : local[p].cookie = Some(s.id) /\ s.expires_at = now

(***************************************************************************)
(* C14: logout is idempotent: with a cookie that names a session which is  *)
(* not (or no longer) stored, it is answered with the same 204 response    *)
(* as the logout that removed the session, and leaves the session table    *)
(* as it was.                                                              *)
(***************************************************************************)
C14_LogoutIdempotent ==
    [][\A p \in Procs :
          ( /\ Starts(p, "logout")
            /\ is_some(local'[p].cookie) /\ is_some(parse_str(unwrap(local'[p].cookie)))
            /\ ~\E s \in sessions : Some(s.id) = local'[p].cookie )
          => /\ resp'[p] = WithCookie(204, "", 0)
             /\ sessions' = sessions]_vars

\* Two logouts with the cookie of the same session have been answered: the one
\* that removed the session and the one that found it gone.
C14_Witness ==
    \E p, q \in Procs :
        /\ p # q
        /\ Answered(p, "logout") /\ Answered(q, "logout")
        /\ local[p].cookie = local[q].cookie
        /\ local[p].cookie \in {Some(1), Some(2)}
        /\ resp[p] = WithCookie(204, "", 0) /\ resp[q] = resp[p]
        /\ ~\E s \in sessions : Some(s.id) = local[p].cookie

(***************************************************************************)
(* C15: no transition returns an account to Uninitialized: an account      *)
(* whose password_hash is set still has a password_hash after every step   *)
(* of every operation (invite, generate_setup_token, init_account,         *)
(* change_password, reset_password, logout).                               *)
(***************************************************************************)
C15_NeverBackToUninitialized ==
    [][\A a \in accounts :
          is_some(a.password_hash) =>
              \E b \in accounts' : b.id = a.id /\ is_some(b.password_hash)]_vars

\* generate_setup_token has given an initialized account a new setup token,
\* and the account still has its password.
C15_Witness ==
    \E p \in Procs, a \in accounts :
        /\ Answered(p, "generate_setup_token") /\ resp[p].status = 200
        /\ a.organizer_id = Some(local[p].id)
        /\ a.setup_token = Some(local[p].token)
        /\ is_some(a.password_hash)

(***************************************************************************)
(* C16: an account is initialized exactly once: init_account never writes  *)
(* the email or the password_hash of an account whose password_hash is     *)
(* already set; once it is set, the password_hash changes only by the      *)
(* commit of change_password or of reset_password.                         *)
(***************************************************************************)
C16_InitializedOnce ==
    [][\A a \in accounts, b \in accounts' :
          ( /\ a.id = b.id
            /\ is_some(a.password_hash)
            /\ (b.password_hash # a.password_hash \/ b.email # a.email) )
          => \E p \in Procs :
                /\ pc[p] \in {"cp_commit", "rp_commit"} /\ pc'[p] = "idle"
                /\ is_some(local[p].tx.account)
                /\ unwrap(local[p].tx.account).id = a.id
                /\ b.email = a.email]_vars

(***************************************************************************)
(* C17: an Organizer principal mutates only its own organizer and the      *)
(* events it owns: update_event / delete_event on an event of another      *)
(* organizer, and update_organizer / delete_organizer /                    *)
(* generate_setup_token on another organizer id, are answered Unauthorized *)
(* and change no state.                                                    *)
(***************************************************************************)
Tables == <<accounts, sessions, password_reset_tokens, events, audit_log, outbox>>

OrganizerOps == {"update_organizer", "delete_organizer", "generate_setup_token"}

\* Task p takes a step.
Steps(p) == <<pc[p], local[p], resp[p]>>' # <<pc[p], local[p], resp[p]>>

Refused(p) == pc'[p] = "idle" /\ resp'[p].status = 401 /\ Tables' = Tables

\* The account that issued the request task p is serving is an organizer
\* account of another organizer than `organizer_id`.
ForeignOrganizer(account_id, organizer_id) ==
    \E a \in accounts :
        a.id = account_id /\ a.account_type = "Organizer" /\ a.organizer_id # Some(organizer_id)

\* update_event / delete_event have read an event of another organizer.
ForeignEventRefused ==
    \A p \in Procs :
        ( /\ pc[p] \in {"ue_select", "de_select"} /\ Steps(p)
          /\ unwrap(local[p].user).account_type = "Organizer"
          /\ \E e \in event_rows(local[p].id) :
                unwrap(local[p].user).organizer_id # Some(e.organizer_id) )
        => Refused(p)

\* An organizer operation arrives with the session of another organizer.
ForeignOrganizerRefused ==
    \A p \in Procs, op \in OrganizerOps :
        LET who == current_user_from_headers(local'[p].cookie)
        IN ( /\ Starts(p, op)
             /\ who.ok /\ who.user.account_type = "Organizer"
             /\ who.user.organizer_id # Some(local'[p].id) )
           => Refused(p)

\* No request of an organizer account gets as far as writing to another
\* organizer's row or event.
NoForeignWrite ==
    \A p \in Procs :
        /\ pc'[p] \in {"uo_update", "do_delete"}
              => ~ForeignOrganizer(local'[p].account_id, local'[p].id)
        /\ \A e \in events :
              ( /\ pc[p] \in {"ue_commit", "de_commit"} /\ Steps(p)
                /\ local[p].id = e.id /\ e \notin events' )
              => ~ForeignOrganizer(local[p].account_id, e.organizer_id)

C17_OrganizerActsOnOwnOnly ==
    [][ForeignEventRefused /\ ForeignOrganizerRefused /\ NoForeignWrite]_vars

\* The organizer of organizer 1 was refused an event of organizer 2 and an
\* organizer operation on organizer 2.
C17_Witness ==
    \E p, q \in Procs :
        /\ Answered(p, "delete_event") \/ Answered(p, "update_event")
        /\ local[p].id = 2 /\ resp[p].status = 401
        /\ resp[p].body \in {"cannot update another organizer's event",
                             "cannot delete another organizer's event"}
        /\ local[q].op \in OrganizerOps /\ pc[q] = "idle"
        /\ local[q].id = 2 /\ local[q].cookie = Some(2) /\ resp[q].status = 401
        /\ resp[q].body \in {"cannot update another organizer",
                             "cannot delete another organizer",
                             "cannot generate token for another organizer"}

(***************************************************************************)
(* C18: an Admin may act on any organizer or event: no event operation     *)
(* (create, read, update, delete) and no organizer operation (update,      *)
(* delete, setup-token generation) requested with the session of an Admin  *)
(* is refused for role or ownership reasons.                               *)
(***************************************************************************)
\* With a valid session the only 401 a handler gives is its role or ownership
\* check; get_event words that refusal as 404 "event not found".
AdminNotRefused ==
    \A p \in Procs :
        /\ \A op \in EventOps \cup OrganizerOps :
              LET who == current_user_from_headers(local'[p].cookie)
              IN (Starts(p, op) /\ who.ok /\ is_admin(who.user) /\ pc'[p] = "idle")
                    => resp'[p].status # 401
        /\ ( /\ pc[p] \in {"ue_select", "de_select"} /\ Steps(p)
             /\ is_admin(unwrap(local[p].user)) )
           => resp'[p].status # 401
        /\ LET who == current_user_from_headers(local[p].cookie)
           IN (pc[p] = "ge_resolve" /\ Steps(p) /\ who.ok /\ is_admin(who.user))
                 => resp'[p].status = 200

C18_AdminActsOnAny == [][AdminNotRefused]_vars

\* C18 as the code has it: with the session of an Admin, no operation on an
\* existing event (read, update, delete) and no organizer operation (update,
\* delete, setup-token generation) is refused for role or ownership reasons;
\* create_event is refused with Unauthorized ("organizer account required")
\* and changes no state, because an Admin has no organizer to own the event.
AdminNotRefusedOnExisting ==
    \A p \in Procs :
        /\ \A op \in (EventOps \ {"create_event"}) \cup OrganizerOps :
              LET who == current_user_from_headers(local'[p].cookie)
              IN (Starts(p, op) /\ who.ok /\ is_admin(who.user) /\ pc'[p] = "idle")
                    => resp'[p].status # 401
        /\ ( /\ pc[p] \in {"ue_select", "de_select"} /\ Steps(p)
             /\ is_admin(unwrap(local[p].user)) )
           => resp'[p].status # 401
        /\ LET who == current_user_from_headers(local[p].cookie)
           IN (pc[p] = "ge_resolve" /\ Steps(p) /\ who.ok /\ is_admin(who.user))
                 => resp'[p].status = 200
        /\ LET who == current_user_from_headers(local'[p].cookie)
           IN (Starts(p, "create_event") /\ who.ok /\ is_admin(who.user))
                 => /\ Refused(p)
                    /\ resp'[p].body = "organizer account required"

C18_AdminActsOnExisting == [][AdminNotRefusedOnExisting]_vars

\* The admin has updated the event of organizer 2 and was refused the
\* creation of an event.
C18_Witness ==
    \E p, q \in Procs :
        /\ Answered(p, "update_event") /\ local[p].account_id = 1 /\ local[p].id = 2
        /\ resp[p].status = 200
        /\ Answered(q, "create_event") /\ local[q].cookie = Some(1)
        /\ resp[q].body = "organizer account required"

(***************************************************************************)
(* C19: an authenticated principal that is denied an operation on an       *)
(* existing resource for lack of role or ownership is answered             *)
(* Unauthorized (401), never NotFound (404).                               *)
(***************************************************************************)
\* The steps in which a handler holds the row it was asked for and the caller
\* it has authenticated, and the caller is neither an admin nor its owner.
DeniedMeans401 ==
    \A p \in Procs :
        /\ ( /\ pc[p] \in {"ue_select", "de_select"} /\ Steps(p)
             /\ \E e \in event_rows(local[p].id) : ~Owns(unwrap(local[p].user), e) )
           => resp'[p].status = 401
        /\ LET who == current_user_from_headers(local[p].cookie)
           IN ( /\ pc[p] = "ge_resolve" /\ Steps(p)
                /\ who.ok
                /\ \E e \in local[p].existing : e \in events /\ ~Owns(who.user, e) )
              => resp'[p].status = 401

C19_DenialIsUnauthorized == [][DeniedMeans401]_vars

(***************************************************************************)
(* C20: the unauthenticated setup-token endpoints (register-info and init) *)
(* answer an unknown token, an expired token and the token of an account   *)
(* that is already initialized with one and the same Validation message,   *)
(* so the response does not tell these three account states apart.         *)
(***************************************************************************)
\* The accounts a presented token names.
TokenHolders(token) == { a \in accounts : a.setup_token = Some(replace_space_by_plus(token)) }

\* The token is unknown, expired, or of an initialized account.
NotPending(token) ==
    \A a \in TokenHolders(token) :
        \/ is_none(a.setup_token_expires_at)
        \/ unwrap(a.setup_token_expires_at) <= now
        \/ is_some(a.password_hash)

\* What the endpoints answer to a token that was never issued.
UnknownTokenResponse == into_response(ensure_pending_setup_token(SetupToken(0)).err)

C20_SetupTokenStatesIndistinguishable ==
    [][\A p \in Procs, op \in {"lookup_setup_token", "init_account"} :
          (Starts(p, op) /\ NotPending(local'[p].token))
             => resp'[p] = UnknownTokenResponse]_vars

(***************************************************************************)
(* C21: a failure to deliver an e-mail never fails the owning operation:   *)
(* when the invitation, welcome or reset e-mail is refused,                *)
(* create_organizer / invite_admin still commit the account and return the *)
(* setup token, init_account still returns the session, and                *)
(* request_password_reset still stores the token and answers 204.          *)
(***************************************************************************)
\* No invitation carrying this setup token was accepted by the relay.
InviteUndelivered(token) == ~\E m \in outbox : m.kind = "invite" /\ m.token = token[1]

MailFailureSwallowed ==
    \A p \in Procs :
        LET l == local[p]
        IN /\ ( /\ pc[p] = "invite_insert" /\ Steps(p) /\ outbox' = outbox
                /\ l.failAt \notin {2, 3} /\ ~EmailTaken(l.email, 0) )
              => /\ pc'[p] = "invite_commit"
                 /\ ~\E m \in outbox' : m.kind = "invite" /\ m.token = local'[p].token[1]
           /\ ( /\ pc[p] = "invite_commit" /\ Steps(p) /\ InviteUndelivered(l.token)
                /\ l.failAt # 4 /\ ~EmailTaken(l.email, 0) )
              => /\ resp'[p] = Ok(201, "SetupTokenResponse")
                 /\ local'[p].token = l.token
                 /\ \E a \in accounts' \ accounts :
                       a.setup_token = Some(l.token) /\ a.email = Some(l.email)
           /\ ( /\ pc[p] = "init_insert" /\ Steps(p) /\ outbox' = outbox
                /\ l.failAt # 3 /\ ~(l.failAt = 4 /\ NewsletterReads(l.account_id)) )
              => /\ resp'[p].status = 200
                 /\ \E s \in sessions' \ sessions :
                       s.account_id = l.account_id /\ resp'[p].set_cookie = Some(s.id)
           /\ ( /\ pc[p] = "rpr_insert" /\ Steps(p) /\ outbox' = outbox
                /\ l.failAt # 3 )
              => /\ resp'[p] = Ok(204, "")
                 /\ \E t \in password_reset_tokens' \ password_reset_tokens :
                       t.account_id = l.account_id

C21_MailFailureSwallowed == [][MailFailureSwallowed]_vars

\* An invitation was committed and its setup token returned although the
\* relay refused the e-mail; an initialization returned its session although
\* no welcome e-mail went out.
C21_Witness ==
    \E p, q \in Procs :
        /\ local[p].op \in {"create_organizer", "invite_admin"} /\ pc[p] = "idle"
        /\ resp[p].status = 201 /\ InviteUndelivered(local[p].token)
        /\ \E a \in accounts : a.setup_token = Some(local[p].token)
        /\ Answered(q, "init_account") /\ resp[q].status = 200
        /\ ~\E m \in outbox : m.kind = "welcome"

\* The rules of the password policy in their fixed order; the length of a
\* password is its number of characters.
PolicyRules(password) ==
    << [broken |-> Len(password) < MIN_LENGTH,
        reason |-> "password must be at least 20 characters long"],
       [broken |-> ~\E i \in 1..Len(password) : password[i] \in Lowercase,
        reason |-> "password must include at least one lowercase letter"],
       [broken |-> ~\E i \in 1..Len(password) : password[i] \in Uppercase,
        reason |-> "password must include at least one uppercase letter"],
       [broken |-> ~\E i \in 1..Len(password) : password[i] \in Digits,
        reason |-> "password must include at least one number"],
       [broken |-> \A i \in 1..Len(password) : password[i] \in Lowercase \cup Uppercase \cup Digits,
        reason |-> "password must include at least one symbol"],
       [broken |-> \E word \in COMMON_PASSWORDS : contains(to_lowercase(password), word),
        reason |-> "password is too common or predictable"],
       [broken |-> ~meets_requirements(password),
        reason |-> "password must provide at least 80 bits of entropy"] >>

BrokenRules(password) ==
    {i \in DOMAIN PolicyRules(password) : PolicyRules(password)[i].broken}

FirstBrokenRule(password) ==
    CHOOSE i \in BrokenRules(password) : \A j \in BrokenRules(password) : i <= j

Evaluated(p) == Answered(p, "ensure_password_requirements")

\* C22: ensure_password_requirements accepts a password exactly when every
\* rule holds (at least 20 characters, a lowercase letter, an uppercase letter,
\* a digit, a symbol, no blocklisted substring in the lowercased form, enough
\* entropy), and a rejection reports the first broken rule in that order.
C22_FirstBrokenRuleWins ==
    \A p \in Procs : Evaluated(p) =>
        LET password == local[p].password IN
        IF BrokenRules(password) = {}
        THEN resp[p].status = 200
        ELSE /\ resp[p].status = 400
             /\ resp[p].body = PolicyRules(password)[FirstBrokenRule(password)].reason

\* The passwords the stored hashes were derived from.
StoredPasswords == { unwrap(a.password_hash).password : a \in {b \in accounts : is_some(b.password_hash)} }

StoredPasswordsPassed == \A password \in StoredPasswords : is_none(ensure_password_requirements(password))

\* A handler goes on to write a password only with one that passed the policy;
\* init_account and reset_password, once past their token lookup, refuse with
\* Validation otherwise, and so does change_password once the current password
\* is verified.
PolicyGuardsWrite ==
    \A p \in Procs :
        /\ (Steps(p) /\ pc'[p] \in {"init_update", "cp_update", "rp_update"})
              => /\ pc[p] \in {"idle", "cp_select"}
                 /\ is_some(local'[p].hash)
                 /\ is_none(ensure_password_requirements(unwrap(local'[p].hash).password))
        /\ ((Starts(p, "init_account") \/ Starts(p, "reset_password")) /\ pc'[p] = "idle")
              => /\ resp'[p].status = 400
                 /\ accounts' = accounts /\ sessions' = sessions
        /\ (pc[p] = "cp_select" /\ Steps(p)
              /\ is_some(ensure_password_requirements(local[p].new_password)))
              => /\ pc'[p] = "idle"
                 /\ resp'[p].status \in {400, 401, 404}
                 /\ (\E a \in accounts : /\ a.id = local[p].account_id
                                          /\ is_some(a.password_hash)
                                          /\ verify_password(local[p].password, unwrap(a.password_hash)))
                       => resp'[p] = into_response(unwrap(ensure_password_requirements(local[p].new_password)))
                 /\ accounts' = accounts /\ sessions' = sessions

\* C23: every stored password_hash comes from a password that passed
\* ensure_password_requirements, whichever of init_account, change_password or
\* reset_password wrote it, and each of the three refuses a new password that
\* does not pass with Validation.
C23_PolicyGuardsEveryWrite == []StoredPasswordsPassed /\ [][PolicyGuardsWrite]_vars

\* One request had its new password refused by the policy, another one wrote
\* its new password.
C23_Witness ==
    \E p, q \in Procs :
        /\ Answered(p, "change_password") /\ resp[p].status = 400
        /\ resp[p].body = "password must be at least 20 characters long"
        /\ Answered(q, "reset_password") /\ resp[q].status = 204
        /\ \E a \in accounts : a.id = local[q].account_id /\ is_some(a.password_hash)

\* The status the taxonomy gives an error: by kind, and for a database error by
\* what the database reported.
TaxonomyStatus(error) ==
    CASE error.variant = "Validation" -> {400}
      [] error.variant = "Unauthorized" -> {401}
      [] error.variant = "NotFound" -> {404}
      [] error.variant = "Serde" -> {500}
      [] error.variant = "Internal" -> {500}
      [] error.variant = "Sqlx" /\ error.code = "23505" -> {409}
      [] error.variant = "Sqlx" /\ error.code \in {"40001", "io"} -> {500}
      [] OTHER -> {400, 401, 404, 409, 500}

\* C24: every AppError is answered with the status of the taxonomy: Validation
\* 400, Unauthorized 401, NotFound 404, a unique-constraint violation 409,
\* serialization and unexpected persistence failures 500, and no error with a
\* status outside {400, 401, 404, 409, 500}.
C24_StatusFollowsTaxonomy ==
    \A p \in Procs : Answered(p, "into_response") =>
        resp[p].status \in TaxonomyStatus(local[p].error)

\* A unique-constraint violation was answered with 409.
C24_Witness ==
    \E p \in Procs : /\ Answered(p, "into_response")
                      /\ local[p].error = Sqlx("23505")
                      /\ resp[p].status = 409

\* The account a setup token belongs to is waiting for its initialization.
PendingWith(account_id, token) ==
    \E a \in accounts : /\ a.id = account_id
                         /\ a.setup_token = Some(replace_space_by_plus(token))
                         /\ is_none(a.password_hash)

InitOnlyFromUninitialized ==
    \A p \in Procs :
        /\ (Starts(p, "init_account") /\ pc'[p] = "init_update")
              => /\ PendingWith(local'[p].account_id, local'[p].token)
                 /\ \E a \in accounts : /\ a.id = local'[p].account_id
                                          /\ is_some(a.setup_token_expires_at)
                                          /\ unwrap(a.setup_token_expires_at) > now
        /\ (Starts(p, "init_account") /\ pc'[p] = "idle")
              => accounts' = accounts /\ sessions' = sessions
        /\ (pc[p] = "init_update" /\ Steps(p) /\ accounts' # accounts)
              => PendingWith(local[p].account_id, local[p].token)
        /\ (pc[p] = "init_insert" /\ Steps(p) /\ sessions' # sessions)
              => \E a \in accounts : /\ a.id = local[p].account_id
                                       /\ a.password_hash = local[p].hash

\* C25: init_account initializes an account only from Uninitialized with a
\* matching, unexpired, unused token: a request whose token is unknown or
\* expired, or whose account already has a password_hash, sets no password and
\* creates no session.
C25_InitOnlyFromUninitialized == [][InitOnlyFromUninitialized]_vars

\* An account whose setup token is consumed (the account is initialized) or
\* has expired.
DeadEnd(a) ==
    \/ is_some(a.password_hash)
    \/ is_some(a.setup_token_expires_at) /\ unwrap(a.setup_token_expires_at) <= now

DeadEndsStay ==
    \A a \in accounts : DeadEnd(a) =>
        \A b \in accounts' :
            b.id = a.id => ~(/\ is_none(b.password_hash)
                             /\ is_some(b.setup_token)
                             /\ is_some(b.setup_token_expires_at)
                             /\ unwrap(b.setup_token_expires_at) > now')

\* C26: an account whose setup token has expired or has been consumed is never
\* again an account init_account accepts a token for, whatever operation acts
\* on it later; only a new account carries a usable token.
C26_DeadEndsAreTerminal == [][DeadEndsStay]_vars

\* The account has a password_hash.
Initialized(account_id) == \E a \in accounts : a.id = account_id /\ is_some(a.password_hash)

\* A session row is inserted only by a login or an init_account that passed its
\* checks, for an account that has a password_hash by then, and is handed out
\* in the cookie of the 200 unless a later statement of the request fails; a
\* request refused by its checks inserts none.
SessionInsertedOnSuccess ==
    /\ \A s \in sessions' \ sessions :
          \E p \in Procs :
              /\ pc[p] \in {"login_insert", "init_insert"}
              /\ pc'[p] = "idle"
              /\ sessions' = sessions \cup {s}
              /\ s.account_id = local[p].account_id
              /\ Initialized(s.account_id)
              /\ \/ resp'[p].status = 200 /\ resp'[p].set_cookie = Some(s.id)
                 \/ faultsOn /\ resp'[p] = DbError
    /\ \A p \in Procs :
          /\ (Starts(p, "login") /\ pc'[p] = "login_insert") => Initialized(local'[p].account_id)
          /\ (pc'[p] = "idle" /\ Steps(p) /\ resp'[p].status \in {400, 401})
                => sessions' \subseteq sessions

\* C27: a session is created only on a successful login or account
\* initialization: a login with an unknown email, an uninitialized account or a
\* wrong password and an init_account refused for its token or password insert
\* no session, and every session row refers to an account that had a
\* password_hash when the row was inserted.
C27_SessionsOnlyOnSuccess == [][SessionInsertedOnSuccess]_vars

\* A login was refused, an account initialization succeeded, and the only new
\* session is the one of the initialization.
C27_Witness ==
    \E p, q \in Procs :
        /\ Answered(p, "login") /\ resp[p].status = 401
        /\ Answered(q, "init_account") /\ resp[q].status = 200
        /\ \E s \in sessions : resp[q].set_cookie = Some(s.id) /\ s.account_id = local[q].account_id
        /\ Cardinality({s \in sessions : s.id > 1}) = 1

\* A stored session keeps its row as long as it is stored, and a new one ends
\* SESSION_TTL after its creation.
SessionWindowFixed ==
    /\ \A s \in sessions : \A t \in sessions' : t.id = s.id => t = s
    /\ \A t \in sessions' \ sessions : t.expires_at = now + SESSION_TTL

\* A session whose expiry is reached resolves no request.
ExpiredSessionsUnresolvable ==
    \A s \in sessions : s.expires_at <= now => ~current_user_from_headers(Some(s.id)).ok

\* C28: sessions are fixed-window: expires_at is set once, at creation, to
\* now + 24h, no operation changes it (resolving the session, /auth/me, any
\* authenticated request, a login of the same account), and at that expiry the
\* session stops resolving however often it was used.
C28_SessionsFixedWindow == []ExpiredSessionsUnresolvable /\ [][SessionWindowFixed]_vars

\* A session resolved /auth/me, and is stored, unchanged, with its expiry
\* reached: it resolves no more.
C28_Witness ==
    \E p \in Procs, s \in sessions :
        /\ Answered(p, "me") /\ resp[p].status = 200 /\ local[p].cookie = Some(s.id)
        /\ local[p].account_id = s.account_id
        /\ s.expires_at <= now
        /\ ~current_user_from_headers(Some(s.id)).ok

\* request_password_reset goes past its lookup only for the initialized account
\* that has the email; a request that stops at the lookup changes nothing and
\* sends nothing, and one that goes on touches the tokens of that account only.
ResetRequestNeedsInitializedAccount ==
    \A p \in Procs :
        /\ (Starts(p, "request_password_reset") /\ pc'[p] = "rpr_delete")
              => \E a \in accounts : /\ a.id = local'[p].account_id
                                       /\ a.email = Some(local'[p].email)
                                       /\ is_some(a.password_hash)
        /\ (Starts(p, "request_password_reset") /\ pc'[p] = "idle")
              => /\ password_reset_tokens' = password_reset_tokens
                 /\ accounts' = accounts /\ sessions' = sessions
                 /\ outbox' = outbox
        /\ (pc[p] \in {"rpr_delete", "rpr_insert"} /\ Steps(p))
              => /\ \A t \in (password_reset_tokens \ password_reset_tokens')
                               \cup (password_reset_tokens' \ password_reset_tokens) :
                        t.account_id = local[p].account_id
                 /\ Initialized(local[p].account_id)
                 /\ accounts' = accounts /\ sessions' = sessions

\* C29: request_password_reset for an email that matches no account, or an
\* account that is not initialized, does nothing: no reset token is created or
\* deleted and no account or session changes.
C29_ResetRequestForUnknownDoesNothing == [][ResetRequestNeedsInitializedAccount]_vars

\* A request found no initialized account for its email and was answered 204
\* with the tables as they were, while an account awaits its initialization.
C29_Witness ==
    \E p \in Procs :
        /\ Answered(p, "request_password_reset") /\ resp[p] = Ok(204, "")
        /\ local[p].account_id = 0
        /\ \E a \in accounts : is_none(a.password_hash) /\ is_some(a.email)
        /\ \A t \in password_reset_tokens : t.id <= 1
        /\ ~\E m \in outbox : m.kind = "reset"

\* The request task p serves was issued with a live session of the account it
\* acts as.
ActorIsSessionAccount(l) ==
    /\ is_some(l.user)
    /\ l.account_id = unwrap(l.user).account_id
    /\ \E c \in sessions, a \in accounts :
          /\ c.account_id = l.account_id /\ c.expires_at > now
          /\ a.id = l.account_id
          /\ unwrap(l.user) = [account_id |-> a.id, account_type |-> a.account_type,
                                organizer_id |-> a.organizer_id]

\* The organizer an audit entry has to name: the one the new event is created
\* for, or the one that owns the event updated or deleted.
OwnerOf(l, r) ==
    IF r.type = "Create"
    THEN { unwrap(a.organizer_id) : a \in {b \in accounts : b.id = l.account_id /\ is_some(b.organizer_id)} }
    ELSE { e.organizer_id : e \in l.existing \cup {f \in events : f.id = l.id} }

AuditNamesActorAndOwner ==
    \A p \in Procs :
        /\ (\E op \in EventOps : Starts(p, op) /\ pc'[p] # "idle")
              => ActorIsSessionAccount(local'[p])
        /\ (pc[p] \in {"ce_audit", "ue_audit", "de_audit"} /\ Steps(p))
              => \A r \in local'[p].tx.audit \ local[p].tx.audit :
                    /\ r.user_id = local[p].account_id
                    /\ r.event_id = local[p].id
                    /\ OwnerOf(local[p], r) = {r.organizer_id}
        /\ (pc[p] \in {"ce_commit", "ue_commit", "de_commit"} /\ Steps(p))
              => audit_log' \ audit_log \subseteq local[p].tx.audit

\* C30: every audit entry names the right actor and owner: user_id is the
\* account of the session that issued the mutating request, organizer_id the
\* organizer that owns the event, also when an Admin updates or deletes the
\* event of an organizer.
C30_AuditActorAndOwner == [][AuditNamesActorAndOwner]_vars

\* The administrator updated or deleted an organizer's event: the entry names
\* the administrator's account and the organizer of the event.
C30_Witness ==
    \E r \in audit_log, a \in accounts :
        /\ r.request # 0 /\ r.type \in {"Update", "Delete"}
        /\ a.id = r.user_id /\ a.account_type = "Admin"
        /\ r.organizer_id = unwrap(r.old_data).organizer_id

\* A login inserts its session while the password_hash it verified is still the
\* account's, and a committing password change leaves no session of the account.
SessionsFollowCurrentPassword ==
    \A p \in Procs :
        /\ (pc[p] = "login_insert" /\ Steps(p) /\ sessions' # sessions)
              => \E a \in accounts : a.id = local[p].account_id /\ a.password_hash = local[p].hash
        /\ CommitsPasswordChange(p)
              => ~\E s \in sessions' : s.account_id = local[p].account_id

\* C31: no interleaving of login with change_password or reset_password leaves
\* a resolvable session that was authenticated against a password that is no
\* longer current: after the change has committed, the sessions of the account
\* come from logins that verified the new password_hash.
C31_NoSessionOfOldPassword == [][SessionsFollowCurrentPassword]_vars

\* A step in which init_account returns an error.
InitFails(p) ==
    /\ Steps(p) /\ pc'[p] = "idle"
    /\ local'[p].op = "init_account"
    /\ resp'[p].status # 200

InitAllOrNothing ==
    \A p \in Procs :
        InitFails(p) =>
            \A a \in accounts' :
                a.id = local'[p].account_id
                => /\ is_none(a.password_hash)
                   /\ is_some(a.setup_token)
                   /\ a \in accounts

\* C32: init_account is all-or-nothing: when it returns an error, also for a
\* failed session insert or newsletter lookup after the account update, the
\* account is still uninitialized and its setup token still usable; no account
\* is left initialized with the caller holding no session.
C32_InitAllOrNothing == [][InitAllOrNothing]_vars

\* The Update entries a commit adds carry, as old_data, the row the event table
\* held up to that commit.
UpdateEntryContinuesHistory ==
    \A r \in audit_log' \ audit_log :
        r.type = "Update" => r.old_data = event_rows(r.event_id)

\* C33: under concurrent update_event requests on one event the audit trail is
\* a consistent history: every Update entry's old_data is the committed state
\* of the event right before that update, so the old_data of an entry equals
\* the new_data of the Update entry committed before it.
C33_AuditHistoryConsistent == [][UpdateEntryContinuesHistory]_vars

DeleteEntriesOf(id) == { r \in audit_log : r.type = "Delete" /\ r.event_id = id }

\* C34: delete_event records a Delete entry only when it removed the event
\* row: whatever the interleaving of delete_event requests for one event, the
\* event has at most one Delete entry and at most one request reports the
\* deletion as done.
C34_OneDeleteEntryPerEvent ==
    \A id \in 1..issued.events :
        /\ Cardinality(DeleteEntriesOf(id)) <= 1
        /\ Cardinality({ p \in Procs : /\ Answered(p, "delete_event")
                                        /\ local[p].id = id
                                        /\ resp[p].status = 204 }) <= 1

\* A login that is not let in is answered 401 "invalid e-mail or password" and
\* inserts no session, whatever the reason; one that is let in found an account
\* whose password_hash is a PHC string.
LoginRefusalsAlike ==
    \A p \in Procs :
        /\ (Starts(p, "login") /\ pc'[p] = "idle" /\ local'[p].failAt # 1)
              => /\ resp'[p] = [status |-> 401, body |-> "invalid e-mail or password",
                                set_cookie |-> None]
                 /\ sessions' = sessions
        /\ (Starts(p, "login") /\ pc'[p] = "login_insert")
              => /\ is_some(local'[p].hash)
                 /\ PasswordHash_new(unwrap(local'[p].hash))
                 /\ \E a \in accounts : /\ a.id = local'[p].account_id
                                          /\ is_some(a.email)
                                          /\ a.password_hash = local'[p].hash

\* C35: login is enumeration-resistant: it answers with the same status and
\* message (401, "invalid e-mail or password") and creates no session whether
\* the email is unknown, the account not yet initialized, the stored hash
\* unparsable or the password wrong.
C35_LoginEnumerationResistant == [][LoginRefusalsAlike]_vars

\* Two refused logins with the same response: one for an email no account has,
\* one for the account whose stored hash does not parse.
C35_Witness ==
    \E p, q \in Procs :
        /\ Answered(p, "login") /\ Answered(q, "login")
        /\ local[p].account_id = 0 /\ local[p].failAt = 0
        /\ \E a \in accounts : a.id = local[q].account_id /\ a.password_hash = Some(CorruptHash)
        /\ resp[p] = resp[q] /\ resp[q].status = 401

\* A step in which get_event, update_event or delete_event answers a request
\* whose cookie resolves to no session.
AnswersUnauthenticated(p) ==
    /\ Steps(p) /\ pc'[p] = "idle"
    /\ local'[p].op \in {"get_event", "update_event", "delete_event"}
    /\ pc[p] \in {"idle", "ge_resolve"}
    /\ ~current_user_from_headers(local'[p].cookie).ok

\* C36: authentication comes before any resource lookup: a request without a
\* valid session to get_event, update_event or delete_event is answered
\* Unauthorized whether or not the addressed event exists.
C36_AuthenticationBeforeLookup ==
    [][\A p \in Procs : AnswersUnauthenticated(p) => resp'[p].status = 401]_vars

\* C37: an invitation e-mail is sent only for an invitation that is persisted:
\* when create_organizer or invite_admin has failed, no e-mail carrying the
\* setup token of that request was delivered.
C37_MailOnlyForPersistedInvitation ==
    \A p \in Procs :
        ( /\ Answered(p, "create_organizer") \/ Answered(p, "invite_admin")
          /\ resp[p].status # 201 )
        => ~\E m \in outbox : m.kind = "invite" /\ m.token = local[p].token[1]

\* The messages of the password policy.
PolicyReasons == { PolicyRules(<<>>)[i].reason : i \in DOMAIN PolicyRules(<<>>) }

\* A step in which init_account or reset_password refuses the new password.
RefusesPassword(p) ==
    /\ Starts(p, "init_account") \/ Starts(p, "reset_password")
    /\ pc'[p] = "idle"
    /\ resp'[p].status = 400 /\ resp'[p].body \in PolicyReasons

RejectedPasswordConsumesNothing ==
    \A p \in Procs :
        RefusesPassword(p) =>
            /\ accounts' = accounts /\ sessions' = sessions
            /\ password_reset_tokens' = password_reset_tokens
            /\ local'[p].op = "init_account" => ensure_pending_setup_token(local'[p].token).ok
            /\ local'[p].op = "reset_password"
                  => \E t \in password_reset_tokens' :
                        /\ t.token = local'[p].reset_token
                        /\ t.expires_at > now' /\ is_none(t.used_at)

\* C38: a refused new password consumes nothing: when init_account or
\* reset_password fails the password policy, the account, the setup or reset
\* token and all sessions are as before, and the token still serves a later
\* request with a compliant password, until it expires.
C38_RejectedPasswordConsumesNothing == [][RejectedPasswordConsumesNothing]_vars

\* The token of a request refused for its password served a second request:
\* the account is initialized, or the password reset.
C38_Witness ==
    \E p, q \in Procs :
        /\ p # q
        /\ resp[p].status = 400 /\ resp[p].body \in PolicyReasons
        /\ \/ /\ Answered(p, "init_account") /\ Answered(q, "init_account")
              /\ replace_space_by_plus(local[p].token) = replace_space_by_plus(local[q].token)
              /\ resp[q].status = 200
           \/ /\ Answered(p, "reset_password") /\ Answered(q, "reset_password")
              /\ local[p].reset_token = local[q].reset_token
              /\ resp[q].status = 204


(***************************************************************************)
(* C39: once create_organizer, update_organizer or delete_organizer has    *)
(* returned, no public organizer read returns data from before the         *)
(* mutation, also when a read ran concurrently with the mutation and its   *)
(* purge of the cache.  list_public_organizers returns a cached list as it *)
(* is, so: once a mutation has succeeded and none is running, a live       *)
(* cached list is the list the organizers table holds.                     *)
(***************************************************************************)
OrganizerMutations == {"create_organizer", "update_organizer", "delete_organizer"}

MutationReturned ==
    \E q \in Procs :
        /\ pc[q] = "idle" /\ local[q].op \in OrganizerMutations
        /\ resp[q].status \in {200, 201, 204}

NoMutationRunning ==
    \A q \in Procs : pc[q] # "idle" => local[q].op \notin OrganizerMutations

C39_PublicReadsSeeMutation ==
    MutationReturned /\ NoMutationRunning
        => \A cached \in get_json(PublicOrganizersKey) : cached = PublicOrganizers

====
